---- MODULE Spec2Model ----
(***************************************************************************)
(* A model of brutella/dnssd: the prober (probeService, probe,             *)
(* probeAtInterface), the responder (Add, Remove, Respond, handleRequest,  *)
(* reprobe, announce, unannounce) and its question handling.               *)
(*                                                                         *)
(* Strings that the code concatenates or compares by content are          *)
(* sequences of one-character strings; interface names are only compared   *)
(* for equality and stay TLA+ strings.                                     *)
(***************************************************************************)
EXTENDS Integers, Sequences, FiniteSets, TLC

(***************************************************************************)
(* Bounds of the model                                                     *)
(***************************************************************************)
\* the rounds of a probe in which a peer still answers with conflicting records
MaxConflictRounds == 3
\* the handles one responder hands out (calls to Add)
MaxHandles == 2

(***************************************************************************)
(* Program constants                                                       *)
(***************************************************************************)
\* for i := 1; i <= 100; i++
MaxRounds == 100
\* if queriesCount > 3 { return }
MaxQueries == 3
\* delay := 250 * time.Millisecond
ProbeWait == 250
\* delay = 1 * time.Second
ConflictWait == 1000
\* queryTime := time.After(1 * time.Millisecond)
FirstQueryWait == 1
\* delay := 250 * time.Millisecond; queryTime = time.After(delay)
QueryWait == 250
\* record TTL of an advertised record (seconds)
TTLDefault == 4500
\* time.Sleep(1 * time.Second) between the two announcements (milliseconds)
AnnounceWait == 1000

(***************************************************************************)
(* Strings                                                                 *)
(***************************************************************************)
DigitChar == <<"0", "1", "2", "3", "4", "5", "6", "7", "8", "9">>

RECURSIVE Itoa(_)
\* fmt.Sprintf("%d", n)
Itoa(n) ==
    IF n < 10 THEN <<DigitChar[n + 1]>>
    ELSE Itoa(n \div 10) \o <<DigitChar[(n % 10) + 1]>>

\* the characters the model's names are made of, in ASCII order
Alphabet ==
    <<"-", ".", "0", "1", "2", "3", "4", "5", "6", "7", "8", "9", "=",
      "A", "B", "H", "T", "\\", "_", "a", "b", "c", "d", "e", "h", "i",
      "l", "n", "o", "p", "r", "s", "t", "u", "v">>

Ord(c) == CHOOSE k \in 1..Len(Alphabet) : Alphabet[k] = c

ToLowerChar(c) ==
    CASE c = "A" -> "a"
      [] c = "B" -> "b"
      [] c = "H" -> "h"
      [] c = "T" -> "t"
      [] OTHER -> c

\* strings.ToLower
ToLower(s) == [k \in 1..Len(s) |-> ToLowerChar(s[k])]

\* strings.EqualFold
EqualFold(s, t) == ToLower(s) = ToLower(t)

RECURSIVE StrCompareFrom(_, _, _)
StrCompareFrom(s, t, k) ==
    IF k > Len(s) /\ k > Len(t) THEN 0
    ELSE IF k > Len(s) THEN -1
    ELSE IF k > Len(t) THEN 1
    ELSE IF Ord(s[k]) < Ord(t[k]) THEN -1
    ELSE IF Ord(s[k]) > Ord(t[k]) THEN 1
    ELSE StrCompareFrom(s, t, k + 1)

\* strings.Compare
StrCompare(s, t) == StrCompareFrom(s, t, 1)

sDot == <<".">>
sEq == <<"=">>
sDash == <<"-">>
sLocal == <<"l", "o", "c", "a", "l">>
sTest == <<"T", "e", "s", "t">>
sBeta == <<"B", "e", "t", "a">>
sType == <<"_", "a", ".", "_", "t", "c", "p">>
sTypeB == <<"_", "b", ".", "_", "t", "c", "p">>
sAlpha == <<"A", "l", "p", "h", "a">>
sHost == <<"H", "o", "s", "t">>
sOther == <<"o", "t", "h", "e", "r">>
sKey == <<"a">>
sDotted == <<"A", ".", "b">>
sEquation == <<"b", "=", "c">>
sMeta ==
    <<"_", "s", "e", "r", "v", "i", "c", "e", "s", ".",
      "_", "d", "n", "s", "-", "s", "d", ".", "_", "u", "d", "p">>

(***************************************************************************)
(* Addresses and interfaces of the host                                    *)
(***************************************************************************)
IPv4(n) == [fam |-> 4, val |-> n]
IPv6(n) == [fam |-> 6, val |-> n]

\* every interface the host has: net.InterfaceByName succeeds for these
SysIfaces == <<"lo0", "en0", "down0">>

\* iface.Addrs()
SysAddrs(name) ==
    CASE name = "lo0" -> <<IPv4(1)>>
      [] name = "en0" -> <<IPv4(2), IPv6(3)>>
      [] OTHER -> <<>>

\* up and multicast-capable
SysMulticast(name) == name \in {"lo0", "en0"}

SeqToSet(q) == {q[k] : k \in 1..Len(q)}

RECURSIVE SelectSeqIdx(_, _, _)
SelectSeqIdx(q, Test(_), k) ==
    IF k > Len(q) THEN <<>>
    ELSE (IF Test(q[k]) THEN <<q[k]>> ELSE <<>>) \o SelectSeqIdx(q, Test, k + 1)

\* the elements of q that satisfy Test, in order
Filter(q, Test(_)) == SelectSeqIdx(q, Test, 1)

RECURSIVE SplitRun(_, _, _, _)
SplitRun(str, c, k, cur) ==
    IF k > Len(str) THEN <<cur>>
    ELSE IF str[k] = c THEN <<cur>> \o SplitRun(str, c, k + 1, <<>>)
    ELSE SplitRun(str, c, k + 1, Append(cur, str[k]))

\* strings.Split(str, c) for a separator of one character
Split(str, c) == SplitRun(str, c, 1, <<>>)

\* strings.SplitN(str, c, 2): cut at the first c, if there is one
SplitN2(str, c) ==
    IF \E k \in 1..Len(str) : str[k] = c
    THEN LET f == CHOOSE k \in 1..Len(str) :
                     str[k] = c /\ \A j \in 1..(k - 1) : str[j] # c
         IN  <<SubSeq(str, 1, f - 1), SubSeq(str, f + 1, Len(str))>>
    ELSE <<str>>

\* q without its k-th element: append(q[:k], q[k+1:]...)
RemoveAt(q, k) == [j \in 1..(Len(q) - 1) |-> IF j < k THEN q[j] ELSE q[j + 1]]

(***************************************************************************)
(* Service                                                                 *)
(***************************************************************************)
\* a map[string]string is the sequence of its <<key, value>> pairs, the keys
\* in ascending order
NoText == <<>>

\* text[key] = value
TextPut(text, key, value) ==
    LET rest == Filter(text, LAMBDA kv : kv[1] # key)
    IN  Filter(rest, LAMBDA kv : StrCompare(kv[1], key) < 0)
        \o << <<key, value>> >>
        \o Filter(rest, LAMBDA kv : StrCompare(kv[1], key) > 0)

\* Service{} : the zero value
ZeroService ==
    [Name |-> <<>>, Type |-> <<>>, Domain |-> <<>>, Host |-> <<>>,
     Text |-> NoText, Port |-> 0, IPs |-> <<>>, Ifaces |-> <<>>,
     ifaceIPs |-> <<>>]

\* s.ifaceIPs is a sequence of <<interface name, addresses>> pairs
HasIfaceIPs(s, name) == \E k \in 1..Len(s.ifaceIPs) : s.ifaceIPs[k][1] = name

IfaceIPsOf(s, name) ==
    s.ifaceIPs[CHOOSE k \in 1..Len(s.ifaceIPs) : s.ifaceIPs[k][1] = name][2]

multicastInterfaces ==
    Filter(SysIfaces, LAMBDA n : SysMulticast(n) /\ Len(SysAddrs(n)) > 0)

\* Service.Interfaces
Interfaces(s) ==
    IF Len(s.Ifaces) > 0
    THEN Filter(s.Ifaces, LAMBDA n : n \in SeqToSet(SysIfaces))
    ELSE multicastInterfaces

\* Service.IPsAtInterface
IPsAtInterface(s, name) ==
    IF HasIfaceIPs(s, name) THEN IfaceIPsOf(s, name)
    ELSE IF Len(s.IPs) > 0 THEN s.IPs
    ELSE SysAddrs(name)

\* Service.ServiceInstanceName
ServiceInstanceName(s) == s.Name \o sDot \o s.Type \o sDot \o s.Domain \o sDot

\* Service.ServiceName
ServiceName(s) == s.Type \o sDot \o s.Domain \o sDot

\* Service.Hostname
Hostname(s) == s.Host \o sDot \o s.Domain \o sDot

\* Service.ServicesMetaQueryName
ServicesMetaQueryName(s) == sMeta \o sDot \o s.Domain \o sDot

\* Service.Copy
Copy(s) == s

(***************************************************************************)
(* Resource records (built by the record constructors of the repository)   *)
(***************************************************************************)
SRV(s) ==
    [type |-> "SRV", name |-> ServiceInstanceName(s), flush |-> FALSE,
     ttl |-> TTLDefault, priority |-> 0, weight |-> 0, port |-> s.Port,
     target |-> Hostname(s)]

PTR(s) ==
    [type |-> "PTR", name |-> ServiceName(s), flush |-> FALSE,
     ttl |-> TTLDefault, ptr |-> ServiceInstanceName(s)]

TXT(s) ==
    [type |-> "TXT", name |-> ServiceInstanceName(s), flush |-> FALSE,
     ttl |-> TTLDefault,
     txt |-> [k \in 1..Len(s.Text) |-> s.Text[k][1] \o sEq \o s.Text[k][2]]]

DNSSDServicesPTR(s) ==
    [type |-> "PTR", name |-> ServicesMetaQueryName(s), flush |-> FALSE,
     ttl |-> TTLDefault, ptr |-> ServiceName(s)]

ARecord(s, ip) ==
    [type |-> "A", name |-> Hostname(s), flush |-> FALSE,
     ttl |-> TTLDefault, ip |-> ip]

AAAARecord(s, ip) ==
    [type |-> "AAAA", name |-> Hostname(s), flush |-> FALSE,
     ttl |-> TTLDefault, ip |-> ip]

\* A(service, iface): one A record per IPv4 address of the service at iface
A(s, name) ==
    LET v4 == Filter(IPsAtInterface(s, name), LAMBDA ip : ip.fam = 4)
    IN  [k \in 1..Len(v4) |-> ARecord(s, v4[k])]

\* AAAA(service, iface): one AAAA record per IPv6 address at iface
AAAA(s, name) ==
    LET v6 == Filter(IPsAtInterface(s, name), LAMBDA ip : ip.fam = 6)
    IN  [k \in 1..Len(v6) |-> AAAARecord(s, v6[k])]

\* NSEC(rr, service, iface): the types answered for rr's owner name
NSEC(rr, s, name) ==
    [type |-> "NSEC", name |-> rr.name, flush |-> FALSE, ttl |-> TTLDefault,
     types |->
        IF rr.type = "PTR" THEN {"PTR"}
        ELSE {"SRV", "TXT"}
             \cup (IF Len(A(s, name)) > 0 THEN {"A"} ELSE {})
             \cup (IF Len(AAAA(s, name)) > 0 THEN {"AAAA"} ELSE {})]

\* dns.Msg
NewMsg ==
    [Question |-> <<>>, Answer |-> <<>>, Ns |-> <<>>, Extra |-> <<>>,
     Truncated |-> FALSE, Response |-> FALSE]

(***************************************************************************)
(* Inbound requests                                                        *)
(***************************************************************************)
\* Request{msg, from, iface}
NewRequest(m, src, name) == [msg |-> m, from |-> src, iface |-> name]

\* filterRecords(m, iface, service) for a service that is not nil; the prober
\* and the responder pass no interface filter (service.Ifaces is not consulted)
filterRecords(m, s) ==
    Filter(m.Answer \o m.Ns \o m.Extra,
           LAMBDA rr :
              CASE rr.type = "SRV" -> rr.name = ServiceInstanceName(s)
                [] rr.type \in {"A", "AAAA"} -> rr.name = Hostname(s)
                [] OTHER -> TRUE)

\* splitRecords: the A, AAAA and SRV records of a list
splitRecords(rrs) ==
    [as |-> Filter(rrs, LAMBDA rr : rr.type = "A"),
     aaaas |-> Filter(rrs, LAMBDA rr : rr.type = "AAAA"),
     srvs |-> Filter(rrs, LAMBDA rr : rr.type = "SRV")]

\* compareIP on the canonical form of two addresses of one family
compareIP(this, that) ==
    IF this.val < that.val THEN -1 ELSE IF this.val > that.val THEN 1 ELSE 0

\* compareSRV
compareSRV(this, that) ==
    IF this.priority < that.priority THEN -1
    ELSE IF this.priority > that.priority THEN 1
    ELSE IF this.weight < that.weight THEN -1
    ELSE IF this.weight > that.weight THEN 1
    ELSE IF this.port < that.port THEN -1
    ELSE IF this.port > that.port THEN 1
    ELSE StrCompare(this.target, that.target)

\* isValidRR
isValidRR(rr) ==
    CASE rr.type \in {"A", "AAAA"} -> rr.ip.val # 0
      [] rr.type = "SRV" -> Len(rr.target) > 0 /\ rr.port # 0
      [] OTHER -> TRUE

\* a variant of isDenyingSRV in which the lexicographically earlier record wins
C24_MutantEarlierDenies(this, that) ==
    /\ EqualFold(this.name, that.name)
    /\ \/ ~isValidRR(this)
       \/ compareSRV(this, that) = -1

\* isDenyingSRV: this denies that
isDenyingSRV(this, that) ==
    /\ EqualFold(this.name, that.name)
    /\ \/ ~isValidRR(this)
       \/ compareSRV(this, that) = 1

\* index of the first element of arr[1..n] with the address of rr, or 0
FirstEqualIP(rr, arr, n) ==
    IF \E k \in 1..n : compareIP(rr.ip, arr[k].ip) = 0
    THEN CHOOSE k \in 1..n :
            /\ compareIP(rr.ip, arr[k].ip) = 0
            /\ \A j \in 1..(k - 1) : compareIP(rr.ip, arr[j].ip) # 0
    ELSE 0

\* tmp = append(tmp[:i], tmp[i+1:]...) on the array tmp shares with the
\* caller's slice: the elements after i move down inside the shared array
ShiftDown(arr, k, n) ==
    [j \in 1..Len(arr) |-> IF j >= k /\ j < n THEN arr[j + 1] ELSE arr[j]]

RECURSIVE equalRun(_, _, _, _)
\* the loop of equalAs / equalAAAAs from this[k] on; arr is the array of the
\* caller's slice `that`, n the length of tmp
equalRun(this, k, arr, n) ==
    IF k > Len(this) THEN [equal |-> n = 0, that |-> arr]
    ELSE LET f == FirstEqualIP(this[k], arr, n)
         IN  IF f = 0 THEN [equal |-> FALSE, that |-> arr]
             ELSE equalRun(this, k + 1, ShiftDown(arr, f, n), n - 1)

\* equalAs(this, that): the result and what the caller's slice holds afterwards
equalAs(this, that) == equalRun(this, 1, that, Len(that))

\* equalAAAAs(this, that)
equalAAAAs(this, that) == equalRun(this, 1, that, Len(that))

\* probeConflict{}
NoConflict == [hostname |-> FALSE, serviceName |-> FALSE]

hasNone(pr) == ~pr.hostname /\ ~pr.serviceName

hasAny(pr) == pr.hostname \/ pr.serviceName

(***************************************************************************)
(* The cache of a browser or resolver                                      *)
(***************************************************************************)
\* time.Second in ticks of the clock: the clock also shows times that are less
\* than a second apart
SecondTicks == 2

\* parseServiceInstanceName
parseServiceInstanceName(str) ==
    LET elems == Split(str, ".")
    IN  [name |-> elems[1],
         service |-> IF Len(elems) > 2 THEN elems[2] \o sDot \o elems[3] ELSE <<>>,
         domain |-> IF Len(elems) > 3 THEN elems[4] ELSE <<>>]

\* parseHostname
parseHostname(str) ==
    LET elems == Split(str, ".")
    IN  [name |-> elems[1],
         domain |-> IF Len(elems) > 1 THEN elems[2] ELSE <<>>]

\* newService(instance): a Service with its fields TTL and expiration, which
\* only the cache uses (in ticks)
newService(instance) ==
    LET parsed == parseServiceInstanceName(instance)
    IN  [Name |-> parsed.name, Type |-> parsed.service, Domain |-> parsed.domain,
         Host |-> <<>>, Text |-> NoText, Port |-> 0, IPs |-> <<>>,
         Ifaces |-> <<>>, ifaceIPs |-> <<>>, TTL |-> 0, expiration |-> 0]

\* Service.SetHostname
SetHostname(s, hostname) ==
    LET parsed == parseHostname(hostname)
    IN  IF parsed.domain = s.Domain THEN [s EXCEPT !.Host = parsed.name] ELSE s

\* Service.addIP(ip, iface) for an iface that is not nil
addIP(s, ip, name) ==
    LET old == s.ifaceIPs
        new == IF HasIfaceIPs(s, name)
               THEN [k \in 1..Len(old) |->
                        IF old[k][1] = name
                        THEN <<name, Append(old[k][2], ip)>> ELSE old[k]]
               ELSE Append(old, <<name, <<ip>> >>)
    IN  [s EXCEPT !.IPs = Append(s.IPs, ip), !.ifaceIPs = new]

\* Cache.services is the set of its entries; an entry is stored under its
\* ServiceInstanceName()
NewCache == {}

CacheKeys(c) == {ServiceInstanceName(e) : e \in c}

InCache(c, key) == \E e \in c : ServiceInstanceName(e) = key

CacheEntry(c, key) == CHOOSE e \in c : ServiceInstanceName(e) = key

\* c.services[entry.ServiceInstanceName()] = entry
CacheStore(c, entry) ==
    {e \in c : ServiceInstanceName(e) # ServiceInstanceName(entry)} \cup {entry}

Reverse(q) == [k \in 1..Len(q) |-> q[Len(q) + 1 - k]]

\* a variant of sortByType that leaves the records in the order of the message
C30_MutantUnsorted(answers) == answers

\* sort.Sort(byType(answers)) for a list that insertion sort handles (fewer
\* than seven records): Less(i, j) only asks whether a[i] is an SRV or a PTR,
\* so each of them moves to the front, past those that moved before it
sortByType(answers) ==
    Reverse(Filter(answers, LAMBDA rr : rr.type \in {"SRV", "PTR"}))
    \o Filter(answers, LAMBDA rr : rr.type \notin {"SRV", "PTR"})

RECURSIVE parseTxt(_, _, _)
\* UpdateFrom, case *dns.TXT: the map of the strings txt[k..] that have a "="
parseTxt(txt, k, text) ==
    IF k > Len(txt) THEN text
    ELSE LET elems == SplitN2(txt[k], "=")
         IN  parseTxt(txt, k + 1,
                      IF Len(elems) = 2 THEN TextPut(text, elems[1], elems[2])
                      ELSE text)

RECURSIVE updateRun(_, _, _, _, _, _)
\* UpdateFrom: its loop over answers[k..]. c is c.services, adds the keys of
\* the entries created so far, name the interface and t what time.Now() shows
updateRun(c, adds, answers, k, name, t) ==
    IF k > Len(answers) THEN [services |-> c, adds |-> adds]
    ELSE LET rr == answers[k]
             key == IF rr.type = "PTR" THEN rr.ptr ELSE rr.name
             fresh == ~InCache(c, key)
             entry == IF fresh THEN newService(key) ELSE CacheEntry(c, key)
             until == t + rr.ttl * SecondTicks
             created == IF fresh THEN Append(adds, ServiceInstanceName(entry))
                        ELSE adds
         IN  CASE rr.type = "PTR" ->
                    IF fresh /\ rr.ttl = 0
                    THEN updateRun(c, adds, answers, k + 1, name, t)
                    ELSE updateRun(
                            CacheStore(c, [entry EXCEPT
                                              !.TTL = rr.ttl * SecondTicks,
                                              !.expiration = until]),
                            created, answers, k + 1, name, t)
               [] rr.type = "SRV" ->
                    IF fresh /\ rr.ttl = 0
                    THEN updateRun(c, adds, answers, k + 1, name, t)
                    ELSE updateRun(
                            CacheStore(c, [SetHostname(entry, rr.target) EXCEPT
                                              !.TTL = rr.ttl * SecondTicks,
                                              !.expiration = until,
                                              !.Port = rr.port]),
                            created, answers, k + 1, name, t)
               [] rr.type \in {"A", "AAAA"} ->
                    updateRun({IF Hostname(e) = rr.name THEN addIP(e, rr.ip, name)
                               ELSE e : e \in c},
                              adds, answers, k + 1, name, t)
               [] rr.type = "TXT" ->
                    IF fresh
                    THEN updateRun(c, adds, answers, k + 1, name, t)
                    ELSE updateRun(
                            CacheStore(c, [entry EXCEPT
                                              !.Text = parseTxt(rr.txt, 1, NoText),
                                              !.TTL = rr.ttl * SecondTicks,
                                              !.expiration = until]),
                            adds, answers, k + 1, name, t)
               [] OTHER -> updateRun(c, adds, answers, k + 1, name, t)

\* Cache.removeExpired when time.Now() shows t
removeExpired(c, t) ==
    [services |-> {e \in c : ~(t > e.expiration)},
     outdated |-> {e \in c : t > e.expiration}]

\* Cache.UpdateFrom(msg, iface): time.Now() shows t in the loop and t2 in
\* removeExpired
UpdateFrom(c, msg, name, t, t2) ==
    LET answers == sortByType(msg.Answer \o msg.Ns \o msg.Extra)
        run == updateRun(c, <<>>, answers, 1, name, t)
        rem == removeExpired(run.services, t2)
    IN  [services |-> rem.services, adds |-> run.adds, rmvs |-> rem.outdated]

\* Cache.Services
Services(c) == c

(***************************************************************************)
(* State                                                                   *)
(***************************************************************************)
VARIABLES
    \* probeService: its arguments, its context and its locals
    srv, probeOnce, ctxDone, pc, round, candidate, prevConflict,
    numHostConflicts, numNameConflicts, delay, retS, retE,
    \* probe / probeAtInterface: the interface being probed and the locals
    ifaceIdx, conflict, queriesCount, as, aaaas,
    \* observations of the current round
    probesSent, roundConflict, ctxObserved,
    \* responder: its fields; service[h] is the service of handle h
    isRunning, unmanaged, managed, service, mutex, truncated, connClosed,
    \* Respond: its context, where it is and what it returned
    respCtxDone, respondPc, respondErr,
    \* the goroutines of announceAtInterface and of reprobe
    announcers, reprobing,
    \* observations: the last operation, and what Respond did on its way out
    lastOp, exitManaged, exitGoodbye

probeVars ==
    <<srv, probeOnce, ctxDone, pc, round, candidate, prevConflict,
      numHostConflicts, numNameConflicts, delay, retS, retE,
      ifaceIdx, conflict, queriesCount, as, aaaas,
      probesSent, roundConflict, ctxObserved>>

serviceVars ==
    <<srv, probeOnce, round, candidate, prevConflict,
      numHostConflicts, numNameConflicts, delay>>

ifaceVars == <<ifaceIdx, conflict, queriesCount, as, aaaas>>

respVars ==
    <<isRunning, unmanaged, managed, service, mutex, truncated, connClosed,
      respCtxDone, respondPc, respondErr, announcers, reprobing,
      lastOp, exitManaged, exitGoodbye>>

VARIABLES
    \* lookupInstance or lookupType: which one runs (call), its argument
    \* instance or service (target), the queries its goroutine has handed
    \* over (queries), its context, where it is and what it returned
    call, target, queries, readCtxDone, clientPc, clientSrv, clientErr,
    \* its cache, the entries lookupType has reported (es) and the clock
    cache, es, now,
    \* observation: the last call of UpdateFrom and the callbacks after it
    lastUpdate,
    \* the transport: the queries the client has sent, and the responses on
    \* their way to it
    sentQ, wire

clientVars ==
    <<call, target, queries, readCtxDone, clientPc, clientSrv, clientErr,
      cache, es, now, lastUpdate>>

netVars == <<sentQ, wire>>

(***************************************************************************)
(* The prober                                                              *)
(***************************************************************************)
ErrNil == "nil"
\* ctx.Err(): context.Canceled or context.DeadlineExceeded
ErrCtx == "ctx"

\* the services handed to the prober
BaseService ==
    [Name |-> sTest, Type |-> sType, Domain |-> sLocal, Host |-> sAlpha,
     Text |-> NoText, Port |-> 2, IPs |-> <<>>, Ifaces |-> <<>>,
     ifaceIPs |-> <<>>]

ProbeServices ==
    { BaseService,
      [BaseService EXCEPT !.Ifaces = <<"lo0">>,
                          !.ifaceIPs = << <<"lo0", <<IPv4(4), IPv4(5)>> >> >>],
      [BaseService EXCEPT !.Ifaces = <<"gone0">>] }

\* a variant of the renaming that starts counting at 3
C26_MutantRenamed(base, n) == base \o sDash \o Itoa(n + 1)

\* fmt.Sprintf("%s-%d", base, n)
Renamed(base, n) == base \o sDash \o Itoa(n)

\* a peer that holds the candidate's names answers in the first rounds, and
\* one that never gives in is followed again in the last rounds
PeerAnswers ==
    round <= MaxConflictRounds \/ round > MaxRounds - MaxConflictRounds

OtherHostname == sOther \o sDot \o sLocal \o sDot

\* the messages a peer may send on interface name while the candidate is probed
PeerMsgs(name) ==
    LET own == A(candidate, name)
        mine == SRV(candidate)
        hostA == ARecord(candidate, IPv4(9))
        hostAAAA == AAAARecord(candidate, IPv6(9))
        answer(rrs) == [NewMsg EXCEPT !.Answer = rrs, !.Response = TRUE]
    IN  {answer(<<[hostA EXCEPT !.name = OtherHostname],
                  [mine EXCEPT !.name = OtherHostname, !.port = 9]>>),
         answer(<<[mine EXCEPT !.port = 1], PTR(candidate)>>)}
        \cup {answer(own) : k \in {Len(own)} \cap {1}}
        \cup (IF PeerAnswers
              THEN {answer(<<own[1]>>) : k \in {1} \cap DOMAIN own}
                   \cup
                   {answer(<<hostA>>), answer(<<hostAAAA>>),
                    answer(<<[mine EXCEPT !.port = 3]>>),
                    answer(<<[mine EXCEPT !.port = 0]>>),
                    answer(<<hostA, [mine EXCEPT !.port = 3]>>)}
              ELSE {})

\* probeAtInterface up to its select loop: the locals on entry
EnterInterface(k) ==
    /\ pc' = "select"
    /\ ifaceIdx' = k
    /\ conflict' = NoConflict
    /\ queriesCount' = 1
    /\ as' = A(candidate, Interfaces(candidate)[k])
    /\ aaaas' = AAAA(candidate, Interfaces(candidate)[k])

LeaveInterface ==
    /\ ifaceIdx' = 0
    /\ conflict' = NoConflict
    /\ queriesCount' = 0
    /\ as' = <<>>
    /\ aaaas' = <<>>

\* probeService, from the return of probe(ctx, conn, *candidate) to the
\* time.Sleep(delay) that ends the round
AfterProbe(c, err) ==
    IF err # ErrNil
    THEN /\ retE' = err
         /\ retS' = ZeroService
         /\ pc' = "done"
         /\ UNCHANGED <<candidate, prevConflict, numHostConflicts,
                        numNameConflicts, delay>>
    ELSE IF hasNone(c)
    THEN /\ retS' = candidate
         /\ retE' = ErrNil
         /\ pc' = "done"
         /\ UNCHANGED <<candidate, prevConflict, numHostConflicts,
                        numNameConflicts, delay>>
    ELSE LET renameHost == c.hostname /\ (prevConflict.hostname \/ probeOnce)
             renameName == c.serviceName /\ (prevConflict.serviceName \/ probeOnce)
             left == [hostname |-> c.hostname /\ ~renameHost,
                      serviceName |-> c.serviceName /\ ~renameName]
         IN  /\ numHostConflicts' = numHostConflicts + (IF renameHost THEN 1 ELSE 0)
             /\ numNameConflicts' = numNameConflicts + (IF renameName THEN 1 ELSE 0)
             /\ candidate' =
                   [candidate EXCEPT
                      !.Host = IF renameHost
                               THEN Renamed(srv.Host, numHostConflicts + 2)
                               ELSE @,
                      !.Name = IF renameName
                               THEN Renamed(srv.Name, numNameConflicts + 2)
                               ELSE @]
             /\ prevConflict' = left
             /\ delay' = IF hasAny(left) THEN ConflictWait ELSE ProbeWait
             /\ pc' = "sleep"
             /\ UNCHANGED <<retS, retE>>

\* probe: what follows the return of probeAtInterface at interface ifaceIdx
AfterInterface(c, err) ==
    IF hasAny(c)
    THEN AfterProbe(c, err) /\ LeaveInterface
    ELSE IF ifaceIdx < Len(Interfaces(candidate))
    THEN /\ EnterInterface(ifaceIdx + 1)
         /\ UNCHANGED <<candidate, prevConflict, numHostConflicts,
                        numNameConflicts, delay, retS, retE>>
    ELSE AfterProbe(NoConflict, ErrNil) /\ LeaveInterface

\* probeService: one iteration of the loop begins, probe() is called
ProbeRound ==
    /\ pc = "loop"
    /\ probesSent' = [k \in 1..Len(Interfaces(candidate)) |-> 0]
    /\ roundConflict' = FALSE
    /\ IF Len(Interfaces(candidate)) = 0
       THEN AfterProbe(NoConflict, ErrNil) /\ LeaveInterface
       ELSE /\ EnterInterface(1)
            /\ UNCHANGED <<candidate, prevConflict, numHostConflicts,
                           numNameConflicts, delay, retS, retE>>
    /\ UNCHANGED <<srv, probeOnce, ctxDone, round, ctxObserved>>
    /\ UNCHANGED <<respVars, clientVars, netVars>>

\* a variant of the check of the interface that lets every message through
C27_MutantAnyInterface(req, iface) == TRUE

\* probeAtInterface: req.iface.Name != iface.Name is false
OnInterface(req, iface) == req.iface = iface

\* probeAtInterface: the wait queryTime was last set to, in milliseconds
queryTime == IF queriesCount = 1 THEN FirstQueryWait ELSE QueryWait

\* probeAtInterface, case req := <-ch
ProbeReceive ==
    /\ pc = "select"
    /\ \E name \in SeqToSet(SysIfaces) \ {"down0"} :
       \E m \in PeerMsgs(name) :
          LET req == NewRequest(m, "peer", name)
              iface == Interfaces(candidate)[ifaceIdx]
              split == splitRecords(filterRecords(req.msg, candidate))
              eqA == equalAs(split.as, as)
              denyA == Len(split.as) > 0 /\ ~eqA.equal
              eqAAAA == equalAAAAs(split.aaaas, aaaas)
              denyAAAA == ~denyA /\ Len(split.aaaas) > 0 /\ ~eqAAAA.equal
              denySRV == \E k \in 1..Len(split.srvs) :
                            isDenyingSRV(split.srvs[k], SRV(candidate))
          IN  IF ~OnInterface(req, iface)
              THEN UNCHANGED <<conflict, as, aaaas, roundConflict>>
              ELSE /\ conflict' =
                         [hostname |-> conflict.hostname \/ denyA \/ denyAAAA,
                          serviceName |-> conflict.serviceName \/ denySRV]
                   /\ as' = IF Len(split.as) > 0 THEN eqA.that ELSE as
                   /\ aaaas' = IF ~denyA /\ Len(split.aaaas) > 0
                               THEN eqAAAA.that ELSE aaaas
                   /\ roundConflict' = (roundConflict \/ denyA \/ denyAAAA \/ denySRV)
    /\ UNCHANGED <<srv, probeOnce, ctxDone, pc, round, candidate, prevConflict,
                   numHostConflicts, numNameConflicts, delay, retS, retE,
                   ifaceIdx, queriesCount, probesSent, ctxObserved>>
    /\ UNCHANGED <<respVars, clientVars, netVars>>

\* probeAtInterface, case <-ctx.Done()
ProbeCtxDone ==
    /\ pc = "select"
    /\ ctxDone
    /\ ctxObserved' = TRUE
    /\ AfterInterface(conflict, ErrCtx)
    /\ UNCHANGED <<srv, probeOnce, ctxDone, round, probesSent, roundConflict>>
    /\ UNCHANGED <<respVars, clientVars, netVars>>

\* probeAtInterface, case <-queryTime
ProbeQueryTime ==
    /\ pc = "select"
    /\ IF hasAny(conflict) \/ queriesCount > MaxQueries
       THEN /\ AfterInterface(conflict, ErrNil)
            /\ UNCHANGED probesSent
       ELSE /\ queriesCount' = queriesCount + 1
            /\ probesSent' = [probesSent EXCEPT ![ifaceIdx] = @ + 1]
            /\ UNCHANGED <<pc, candidate, prevConflict, numHostConflicts,
                           numNameConflicts, delay, retS, retE,
                           ifaceIdx, conflict, as, aaaas>>
    /\ UNCHANGED <<srv, probeOnce, ctxDone, round, roundConflict, ctxObserved>>
    /\ UNCHANGED <<respVars, clientVars, netVars>>

\* probeService: time.Sleep(delay) returns, i++ and the loop condition
ProbeSleep ==
    /\ pc = "sleep"
    /\ round' = round + 1
    /\ IF round + 1 <= MaxRounds
       THEN pc' = "loop" /\ UNCHANGED <<retS, retE>>
       ELSE pc' = "done" /\ retS' = ZeroService /\ retE' = ErrNil
    /\ UNCHANGED <<srv, probeOnce, ctxDone, candidate, prevConflict,
                   numHostConflicts, numNameConflicts, delay, ifaceVars,
                   probesSent, roundConflict, ctxObserved>>
    /\ UNCHANGED <<respVars, clientVars, netVars>>

\* the caller cancels ctx, or the one-minute timeout of ProbeService fires
ProbeCancel ==
    /\ pc # "done"
    /\ ~ctxDone
    /\ ctxDone' = TRUE
    /\ UNCHANGED <<srv, probeOnce, pc, round, candidate, prevConflict,
                   numHostConflicts, numNameConflicts, delay, retS, retE,
                   ifaceVars, probesSent, roundConflict, ctxObserved>>
    /\ UNCHANGED <<respVars, clientVars, netVars>>

\* probeService(ctx, conn, srv, delay, probeOnce) has been called
ProbeInit ==
    /\ srv \in ProbeServices
    /\ probeOnce \in BOOLEAN
    /\ ctxDone = FALSE
    /\ pc = "loop"
    /\ round = 1
    /\ candidate = Copy(srv)
    /\ prevConflict = NoConflict
    /\ numHostConflicts = 0
    /\ numNameConflicts = 0
    /\ delay = 1
    /\ retS = ZeroService
    /\ retE = ErrNil
    /\ ifaceIdx = 0
    /\ conflict = NoConflict
    /\ queriesCount = 0
    /\ as = <<>>
    /\ aaaas = <<>>
    /\ probesSent = <<>>
    /\ roundConflict = FALSE
    /\ ctxObserved = FALSE

ProbeNext ==
    \/ ProbeRound
    \/ ProbeReceive
    \/ ProbeCtxDone
    \/ ProbeQueryTime
    \/ ProbeSleep
    \/ ProbeCancel

vars == <<probeVars, respVars, clientVars, netVars>>

(***************************************************************************)
(* The responder: messages                                                 *)
(***************************************************************************)
\* newMDNSConn failed, or the one-minute timeout of ProbeService fired
ErrProbe == "probe"

\* resp.addr == nil: the response goes to the multicast group
Multicast == "multicast"

\* r.truncated == nil
NoRequest == NewRequest(NewMsg, "nil", "nil")

\* dns.Question; unicast is the unicast-response bit of Qclass
Question(name, unicast) == [Name |-> name, unicast |-> unicast]

\* Response{msg, addr, iface}
Response(m, addr, name) == [msg |-> m, addr |-> addr, iface |-> name]

\* isUnicastQuestion: bit 15 of q.Qclass
isUnicastQuestion(q) == q.unicast

\* a variant of setAnswerCacheFlushBit that sets no bit
C8_MutantNoFlush(m) == m

\* the cache-flush bit on every answer that is not a (shared) PTR
setAnswerCacheFlushBit(m) ==
    [m EXCEPT !.Answer =
        [k \in 1..Len(m.Answer) |->
            IF m.Answer[k].type = "PTR" THEN m.Answer[k]
            ELSE [m.Answer[k] EXCEPT !.flush = TRUE]]]

\* two records are the same answer: owner name, type and data; the TTL and
\* the cache-flush bit are not compared
SameRecord(a, b) ==
    [a EXCEPT !.ttl = 0, !.flush = FALSE] = [b EXCEPT !.ttl = 0, !.flush = FALSE]

Listed(rr, rrs) == \E k \in 1..Len(rrs) : SameRecord(rrs[k], rr)

\* a variant of remove that suppresses nothing
C9_MutantRemove(rrs, from) == from

\* remove(rrs, from): the records of from that rrs does not list
remove(rrs, from) == Filter(from, LAMBDA rr : ~Listed(rr, rrs))

RECURSIVE mergeFrom(_, _)
mergeFrom(msgs, k) ==
    IF k > Len(msgs) THEN NewMsg
    ELSE LET rest == mergeFrom(msgs, k + 1)
         IN  [rest EXCEPT !.Answer = msgs[k].Answer \o @,
                          !.Ns = msgs[k].Ns \o @,
                          !.Extra = msgs[k].Extra \o @]

\* mergeMsgs: one message with the Answer, Authority and Additional sections
\* of all msgs; the Truncated flag is clear
mergeMsgs(msgs) == mergeFrom(msgs, 1)

\* areDenyingAs / areDenyingAAAAs: the addresses claimed for our hostname are
\* not our own set
areDenyingAs(this, that) ==
    {this[k].ip : k \in 1..Len(this)} # {that[k].ip : k \in 1..Len(that)}

areDenyingAAAAs(this, that) == areDenyingAs(this, that)

\* handleQuestion: <<>> for a nil result, else the one message
handleQuestion(q, req, s) ==
    LET name == ToLower(q.Name)
        addrs == A(s, req.iface) \o AAAA(s, req.iface)
        built ==
            IF name = ToLower(ServiceName(s))
            THEN [NewMsg EXCEPT
                    !.Answer = <<PTR(s)>>,
                    !.Extra = <<SRV(s), TXT(s)>> \o addrs
                              \o <<NSEC(PTR(s), s, req.iface)>>]
            ELSE IF name = ToLower(ServiceInstanceName(s))
            THEN setAnswerCacheFlushBit(
                   [NewMsg EXCEPT
                      !.Answer = <<SRV(s), TXT(s), PTR(s)>>,
                      !.Extra = addrs \o <<NSEC(SRV(s), s, req.iface)>>])
            ELSE IF name = ToLower(Hostname(s))
            THEN setAnswerCacheFlushBit(
                   [NewMsg EXCEPT
                      !.Answer = addrs,
                      !.Extra = <<NSEC(SRV(s), s, req.iface)>>])
            ELSE [NewMsg EXCEPT !.Answer = <<DNSSDServicesPTR(s)>>]
        matches ==
            name \in {ToLower(ServiceName(s)), ToLower(ServiceInstanceName(s)),
                      ToLower(Hostname(s)), ToLower(ServicesMetaQueryName(s))}
    IN  IF ~matches THEN <<>>
        ELSE <<[built EXCEPT !.Answer = remove(req.msg.Answer, built.Answer),
                             !.Response = TRUE]>>

RECURSIVE questionMsgs(_, _, _, _)
\* handleQuery: the messages of the services svcs[k..] for question q
questionMsgs(q, req, svcs, k) ==
    IF k > Len(svcs) THEN <<>>
    ELSE handleQuestion(q, req, svcs[k]) \o questionMsgs(q, req, svcs, k + 1)

\* a variant of answerTo that never looks at the unicast-response bit
C10_MutantAnswerTo(q, req, svcs) ==
    LET msg == [mergeMsgs(questionMsgs(q, req, svcs, 1)) EXCEPT !.Response = TRUE]
    IN  IF Len(msg.Answer) = 0 THEN <<>>
        ELSE <<Response(msg, Multicast, req.iface)>>

\* a variant of answerTo that also sends a message without answers
C28_MutantSendsEmpty(q, req, svcs) ==
    LET msg == [mergeMsgs(questionMsgs(q, req, svcs, 1)) EXCEPT !.Response = TRUE]
    IN  IF isUnicastQuestion(q)
        THEN <<Response(msg, req.from, req.iface)>>
        ELSE <<Response(msg, Multicast, req.iface)>>

\* handleQuery: what is sent for question q, <<>> or one response
answerTo(q, req, svcs) ==
    LET msg == [mergeMsgs(questionMsgs(q, req, svcs, 1)) EXCEPT !.Response = TRUE]
    IN  IF Len(msg.Answer) = 0 THEN <<>>
        ELSE IF isUnicastQuestion(q)
        THEN <<Response(msg, req.from, req.iface)>>
        ELSE <<Response(msg, Multicast, req.iface)>>

RECURSIVE queryFrom(_, _, _)
queryFrom(req, svcs, k) ==
    IF k > Len(req.msg.Question) THEN <<>>
    ELSE answerTo(req.msg.Question[k], req, svcs) \o queryFrom(req, svcs, k + 1)

\* handleQuery(req, services): the responses sent, in order
handleQuery(req, svcs) == queryFrom(req, svcs, 1)

\* handleQuery: the iterations of its loop over req.msg.Question that sent
answered(req, svcs) ==
    Filter([k \in 1..Len(req.msg.Question) |-> k],
           LAMBDA k : Len(answerTo(req.msg.Question[k], req, svcs)) > 0)

\* containsConflictingAnswers(req, handle) for a handle whose service is s
containsConflictingAnswers(req, s) ==
    LET split == splitRecords(filterRecords(req.msg, s))
    IN  \/ Len(split.as) > 0 /\ areDenyingAs(split.as, A(s, req.iface))
        \/ Len(split.aaaas) > 0 /\ areDenyingAAAAs(split.aaaas, AAAA(s, req.iface))
        \/ \E k \in 1..Len(split.srvs) : isDenyingSRV(split.srvs[k], SRV(s))

\* a variant of findConflicts that finds none
C11_MutantFindConflicts(req, hs) == <<>>

\* findConflicts(req, hs): the handles of hs whose service req conflicts with
findConflicts(req, hs) ==
    Filter(hs, LAMBDA h : containsConflictingAnswers(req, service[h]))

(***************************************************************************)
(* The responder: services, goroutines and the mutex                       *)
(***************************************************************************)
\* how often the prober is followed when it renames one service
MaxRenames == 1

\* the renames a name went through: each one appended "-<n>"
Renames(name) == Len(Filter(name, LAMBDA c : c = "-"))

\* TestRegisterServiceWithExplicitIP: a service bound to lo0 with its own address
ServiceLo ==
    [BaseService EXCEPT !.Ifaces = <<"lo0">>,
                        !.ifaceIPs = << <<"lo0", <<IPv4(4)>> >> >>]

\* a service bound to an interface that has no address
ServiceDown == [BaseService EXCEPT !.Name = sBeta, !.Ifaces = <<"down0">>]

\* the services handed to Add
AddServices == {ServiceLo, ServiceDown}

\* what ProbeService(ctx, s) returns to register; parentDone: ctx is cancelled.
\* The outcomes followed are: the service as it is, the service renamed, and
\* an error; the empty service of a probe that ran out of rounds is followed
\* in the prober's specification only
ProbeServiceResults(s, parentDone) ==
    {[svc |-> s, err |-> ErrNil], [svc |-> s, err |-> ErrProbe]}
    \cup (IF Renames(s.Name) < MaxRenames
          THEN {[svc |-> [s EXCEPT !.Name = Renamed(s.Name, 2)], err |-> ErrNil]}
          ELSE {})
    \cup (IF parentDone THEN {[svc |-> s, err |-> ErrCtx]} ELSE {})

\* what ReprobeService(ctx, s) returns to reprobe (no timeout, probeOnce):
\* the same outcomes, but for the error of a cancelled context
ReprobeServiceResults(s) ==
    {[svc |-> s, err |-> ErrNil], [svc |-> s, err |-> ErrProbe]}
    \cup (IF Renames(s.Name) < MaxRenames
          THEN {[svc |-> [s EXCEPT !.Name = Renamed(s.Name, 2)], err |-> ErrNil]}
          ELSE {})

\* services(hs)
services(hs) == [k \in 1..Len(hs) |-> service[hs[k]]]

\* the interfaces on which announceAtInterface and unannounce send for s
SendIfaces(s) ==
    {n \in SeqToSet(Interfaces(s)) : Len(IPsAtInterface(s, n)) > 0}

\* a variant of announce that starts no goroutine
C5_MutantAnnounce(svcs) == {}

\* announce(services): one goroutine per service and interface; those without
\* an address return at once. n is the number of the announcement the
\* goroutine sends next
announce(svcs) ==
    UNION {{[svc |-> svcs[k], iface |-> name, n |-> 1] :
               name \in SendIfaces(svcs[k])} : k \in 1..Len(svcs)}

\* a variant of the announcement that leaves the addresses out
C18_MutantAnnounceMsg(s, name) ==
    setAnswerCacheFlushBit(
        [NewMsg EXCEPT !.Answer = <<SRV(s), PTR(s), TXT(s)>>, !.Response = TRUE])

\* announceAtInterface: the message
AnnounceMsg(s, name) ==
    setAnswerCacheFlushBit(
        [NewMsg EXCEPT
            !.Answer = <<SRV(s), PTR(s), TXT(s)>> \o A(s, name) \o AAAA(s, name),
            !.Response = TRUE])

\* unannounce: the goodbye of interface name for the services svcs
GoodbyeMsg(svcs, name) ==
    LET at == Filter(svcs, LAMBDA s : name \in SendIfaces(s))
    IN  [NewMsg EXCEPT
            !.Answer = [k \in 1..Len(at) |-> [PTR(at[k]) EXCEPT !.ttl = 0]],
            !.Response = TRUE]

\* a variant of unannounce that sends each goodbye three times
C4_MutantUnannounce(svcs) ==
    LET names == Filter(SysIfaces,
                        LAMBDA n : \E k \in 1..Len(svcs) : n \in SendIfaces(svcs[k]))
    IN  [j \in 1..(3 * Len(names)) |->
            Response(GoodbyeMsg(svcs, names[(j + 2) \div 3]), Multicast,
                     names[(j + 2) \div 3])]

\* unannounce(services): the responses sent, each interface twice with a
\* sleep in between (the interfaces are taken in the order of the host's list)
unannounce(svcs) ==
    LET names == Filter(SysIfaces,
                        LAMBDA n : \E k \in 1..Len(svcs) : n \in SendIfaces(svcs[k]))
    IN  [j \in 1..(2 * Len(names)) |->
            Response(GoodbyeMsg(svcs, names[(j + 1) \div 2]), Multicast,
                     names[(j + 1) \div 2])]

\* r.mutex: who holds it and where the holder is
Holder(op, h, s, k) == [op |-> op, h |-> h, srv |-> s, idx |-> k]

Unlocked == Holder("none", 0, ZeroService, 0)

\* the observation of one operation
NoOp ==
    [op |-> "none", h |-> 0, err |-> ErrNil, svc |-> ZeroService,
     arg |-> ZeroService, sent |-> <<>>, asked |-> <<>>, spawned |-> {},
     managed0 |-> <<>>, unmanaged0 |-> <<>>,
     running0 |-> FALSE, req |-> NoRequest, reprobed |-> FALSE,
     n |-> 0, wait |-> 0]

\* Remove: the index of h in r.managed, 0 if the loop does not find it
RemoveIndex(h) ==
    IF \E i \in 1..Len(managed) : managed[i] = h
    THEN CHOOSE i \in 1..Len(managed) :
            managed[i] = h /\ \A j \in 1..(i - 1) : managed[j] # h
    ELSE 0

\* a reprobe goroutine is probing the service s of a handle again
BeingReprobed(s) == \E r \in reprobing : r.svc = s /\ r.pc = "probing"

(***************************************************************************)
(* The responder: Add, Remove, Respond                                     *)
(***************************************************************************)
\* Add(srv) takes the mutex; before Respond it is addUnmanaged and done, while
\* the responder runs it goes on to register, which probes
AddCall(s) ==
    /\ mutex = Unlocked
    /\ Len(service) < MaxHandles
    /\ IF isRunning
       THEN /\ mutex' = Holder("Add", 0, s, 0)
            /\ lastOp' = [NoOp EXCEPT !.op = "Add.probe", !.running0 = TRUE]
            /\ UNCHANGED <<unmanaged, service>>
       ELSE /\ service' = Append(service, s)
            /\ unmanaged' = Append(unmanaged, Len(service) + 1)
            /\ lastOp' = [NoOp EXCEPT !.op = "Add", !.h = Len(service) + 1,
                                      !.arg = s, !.svc = s, !.managed0 = managed,
                                      !.unmanaged0 = unmanaged]
            /\ UNCHANGED mutex
    /\ UNCHANGED <<isRunning, managed, truncated, connClosed, respCtxDone,
                   respondPc, respondErr, announcers, reprobing,
                   exitManaged, exitGoodbye>>
    /\ UNCHANGED <<probeVars, clientVars, netVars>>

\* Add: ProbeService returns to register; on success `go r.announce(srvs)`
\* and addManaged, then the deferred Unlock
AddReturn ==
    /\ mutex.op = "Add"
    /\ \E out \in ProbeServiceResults(mutex.srv, FALSE) :
          LET h == Len(service) + 1
              tasks == announce(<<out.svc>> \o services(managed))
          IN  IF out.err # ErrNil
              THEN /\ lastOp' = [NoOp EXCEPT !.op = "Add", !.err = out.err,
                                    !.arg = mutex.srv, !.running0 = TRUE,
                                    !.managed0 = managed, !.unmanaged0 = unmanaged]
                   /\ UNCHANGED <<service, managed, announcers>>
              ELSE /\ service' = Append(service, out.svc)
                   /\ managed' = Append(managed, h)
                   /\ announcers' = announcers \cup tasks
                   /\ lastOp' = [NoOp EXCEPT !.op = "Add", !.h = h,
                                    !.arg = mutex.srv, !.svc = out.svc,
                                    !.running0 = TRUE,
                                    !.spawned = tasks,
                                    !.managed0 = managed, !.unmanaged0 = unmanaged]
    /\ mutex' = Unlocked
    /\ UNCHANGED <<isRunning, unmanaged, truncated, connClosed, respCtxDone,
                   respondPc, respondErr, reprobing, exitManaged, exitGoodbye>>
    /\ UNCHANGED <<probeVars, clientVars, netVars>>

\* Remove(h) takes the mutex and looks for h in r.managed; a handle that is
\* not there ends the call, one that is there gets the first goodbye
RemoveCall(h) ==
    /\ mutex = Unlocked
    /\ LET i == RemoveIndex(h)
           sends == IF i = 0 THEN <<>> ELSE unannounce(<<service[h]>>)
           seen == [NoOp EXCEPT !.h = h, !.managed0 = managed,
                                !.unmanaged0 = unmanaged]
       IN  IF i = 0
           THEN /\ lastOp' = [seen EXCEPT !.op = "Remove"]
                /\ UNCHANGED <<managed, mutex>>
           ELSE IF Len(sends) = 0
           THEN /\ managed' = RemoveAt(managed, i)
                /\ lastOp' = [seen EXCEPT !.op = "Remove", !.svc = service[h]]
                /\ UNCHANGED mutex
           ELSE /\ mutex' = Holder("Remove", h, service[h], i)
                /\ lastOp' = [seen EXCEPT !.op = "Remove.goodbye",
                                          !.svc = service[h],
                                          !.sent = <<sends[1]>>]
                /\ UNCHANGED managed
    /\ UNCHANGED <<isRunning, unmanaged, service, truncated, connClosed,
                   respCtxDone, respondPc, respondErr, announcers, reprobing,
                   exitManaged, exitGoodbye>>
    /\ UNCHANGED <<probeVars, clientVars, netVars>>

\* Remove: the sleeps of unannounce are over, the other goodbyes are sent, h
\* is cut out of r.managed, then the deferred Unlock
RemoveReturn ==
    /\ mutex.op = "Remove"
    /\ managed' = RemoveAt(managed, mutex.idx)
    /\ lastOp' = [NoOp EXCEPT !.op = "Remove", !.h = mutex.h,
                              !.svc = mutex.srv,
                              !.sent = unannounce(<<mutex.srv>>),
                              !.managed0 = managed, !.unmanaged0 = unmanaged]
    /\ mutex' = Unlocked
    /\ UNCHANGED <<isRunning, unmanaged, service, truncated, connClosed,
                   respCtxDone, respondPc, respondErr, announcers, reprobing,
                   exitManaged, exitGoodbye>>
    /\ UNCHANGED <<probeVars, clientVars, netVars>>

\* Respond(ctx) takes the mutex and sets isRunning; without pending handles
\* it unlocks and enters respond
RespondCall ==
    /\ respondPc = "idle"
    /\ mutex = Unlocked
    /\ isRunning' = TRUE
    /\ IF Len(unmanaged) = 0
       THEN respondPc' = "loop" /\ UNCHANGED mutex
       ELSE respondPc' = "register" /\ mutex' = Holder("Respond", 0, ZeroService, 1)
    /\ lastOp' = [NoOp EXCEPT !.op = "Respond.start"]
    /\ UNCHANGED <<unmanaged, managed, service, truncated, connClosed,
                   respCtxDone, respondErr, announcers, reprobing,
                   exitManaged, exitGoodbye>>
    /\ UNCHANGED <<probeVars, clientVars, netVars>>

\* Respond: register returns for the pending handle unmanaged[idx]; an error
\* is returned as it is (line 104), success moves the handle to r.managed and
\* after the last one the pending list is emptied and the mutex unlocked
RespondRegister ==
    /\ mutex.op = "Respond"
    /\ LET h == unmanaged[mutex.idx] IN
       \E out \in ProbeServiceResults(service[h], respCtxDone) :
          LET tasks == announce(<<out.svc>> \o services(managed))
          IN  IF out.err # ErrNil
              THEN /\ respondPc' = "returned"
                   /\ respondErr' = out.err
                   /\ mutex' = Holder("Respond.returned", 0, ZeroService, 0)
                   /\ exitManaged' = services(managed)
                   /\ lastOp' = [NoOp EXCEPT !.op = "Respond", !.err = out.err]
                   /\ UNCHANGED <<service, managed, unmanaged, announcers>>
              ELSE /\ service' = [service EXCEPT ![h] = out.svc]
                   /\ managed' = Append(managed, h)
                   /\ announcers' = announcers \cup tasks
                   /\ lastOp' = [NoOp EXCEPT !.op = "Respond.register", !.h = h,
                                    !.svc = out.svc, !.spawned = tasks]
                   /\ IF mutex.idx < Len(unmanaged)
                      THEN /\ mutex' = [mutex EXCEPT !.idx = @ + 1]
                           /\ UNCHANGED <<unmanaged, respondPc>>
                      ELSE /\ mutex' = Unlocked
                           /\ unmanaged' = <<>>
                           /\ respondPc' = "loop"
                   /\ UNCHANGED <<respondErr, exitManaged>>
    /\ UNCHANGED <<isRunning, truncated, connClosed, respCtxDone, reprobing,
                   exitGoodbye>>
    /\ UNCHANGED <<probeVars, clientVars, netVars>>

\* the caller of Respond cancels ctx
RespondCancel ==
    /\ respondPc \in {"register", "loop"}
    /\ ~respCtxDone
    /\ respCtxDone' = TRUE
    /\ lastOp' = [NoOp EXCEPT !.op = "cancel"]
    /\ UNCHANGED <<isRunning, unmanaged, managed, service, mutex, truncated,
                   connClosed, respondPc, respondErr, announcers, reprobing,
                   exitManaged, exitGoodbye>>
    /\ UNCHANGED <<probeVars, clientVars, netVars>>

\* respond, case <-ctx.Done(): unannounce(services(r.managed)) is called
\* without the mutex and sends its first goodbye
RespondCtxDone ==
    /\ respondPc = "loop"
    /\ respCtxDone
    /\ respondPc' = "goodbye"
    /\ exitManaged' = services(managed)
    /\ LET sends == unannounce(services(managed))
       IN  /\ exitGoodbye' = sends
           /\ lastOp' = [NoOp EXCEPT !.op = "Respond.goodbye",
                            !.sent = IF Len(sends) > 0 THEN <<sends[1]>> ELSE <<>>]
    /\ UNCHANGED <<isRunning, unmanaged, managed, service, mutex, truncated,
                   connClosed, respCtxDone, respondErr, announcers, reprobing>>
    /\ UNCHANGED <<probeVars, clientVars, netVars>>

\* respond: unannounce is through, r.conn.Close(), isRunning = false and
\* return ctx.Err()
RespondReturn ==
    /\ respondPc = "goodbye"
    /\ respondPc' = "returned"
    /\ connClosed' = TRUE
    /\ isRunning' = FALSE
    /\ respondErr' = ErrCtx
    /\ lastOp' = [NoOp EXCEPT !.op = "Respond", !.err = ErrCtx,
                              !.sent = exitGoodbye]
    /\ UNCHANGED <<unmanaged, managed, service, mutex, truncated, respCtxDone,
                   announcers, reprobing, exitManaged, exitGoodbye>>
    /\ UNCHANGED <<probeVars, clientVars, netVars>>

\* respond, case req := <-ch: Lock, handleRequest(req), Unlock; what becomes
\* of the transport is said where the request is taken from
HandleRequest(req) ==
    /\ respondPc = "loop"
    /\ mutex = Unlocked
    /\ IF Len(managed) = 0
       THEN /\ lastOp' = [NoOp EXCEPT !.op = "handleRequest", !.req = req]
            /\ UNCHANGED <<managed, truncated, reprobing>>
       ELSE IF req.msg.Truncated
       THEN /\ truncated' = req
            /\ lastOp' = [NoOp EXCEPT !.op = "handleRequest", !.req = req]
            /\ UNCHANGED <<managed, reprobing>>
       ELSE LET append == truncated # NoRequest /\ truncated.from = req.from
                full == IF append
                        THEN [req EXCEPT !.msg = mergeMsgs(<<truncated.msg, req.msg>>)]
                        ELSE req
                conflicts == findConflicts(full, managed)
                left == Filter(managed, LAMBDA h : h \notin SeqToSet(conflicts))
            IN  /\ truncated' = IF append THEN NoRequest ELSE truncated
                /\ reprobing' = reprobing \cup
                        {[h |-> h, svc |-> service[h], pc |-> "probing"] :
                            h \in SeqToSet(conflicts)}
                /\ managed' = left
                /\ lastOp' = [NoOp EXCEPT !.op = "handleRequest", !.req = full,
                                 !.managed0 = managed,
                                 !.sent = handleQuery(full, services(left)),
                                 !.asked = answered(full, services(left))]
    /\ UNCHANGED <<isRunning, unmanaged, service, mutex, connClosed,
                   respCtxDone, respondPc, respondErr, announcers,
                   exitManaged, exitGoodbye>>
    /\ UNCHANGED <<probeVars, clientVars>>

\* announceAtInterface of goroutine a sends its first or, after the sleep of
\* one second, its second announcement; what becomes of the transport is
\* said by the caller
AnnounceSend(a) ==
    /\ a \in announcers
    /\ announcers' = (announcers \ {a})
                     \cup (IF a.n = 1 THEN {[a EXCEPT !.n = 2]} ELSE {})
    /\ lastOp' = [NoOp EXCEPT !.op = "announce", !.svc = a.svc,
                     !.sent = <<Response(AnnounceMsg(a.svc, a.iface), Multicast,
                                         a.iface)>>,
                     !.reprobed = BeingReprobed(a.svc),
                     !.n = a.n,
                     !.wait = IF a.n = 2 THEN AnnounceWait ELSE 0]
    /\ UNCHANGED <<isRunning, unmanaged, managed, service, mutex, truncated,
                   connClosed, respCtxDone, respondPc, respondErr, reprobing,
                   exitManaged, exitGoodbye>>
    /\ UNCHANGED <<probeVars, clientVars>>

\* reprobe: ReprobeService(ctx, *h.service) returns out
ReprobeReturn(r, out) ==
    /\ r \in reprobing
    /\ r.pc = "probing"
    /\ IF out.err # ErrNil
       THEN /\ reprobing' = reprobing \ {r}
            /\ lastOp' = [NoOp EXCEPT !.op = "reprobe", !.h = r.h,
                             !.err = out.err, !.svc = r.svc]
            /\ UNCHANGED service
       ELSE /\ reprobing' = (reprobing \ {r})
                     \cup {[h |-> r.h, svc |-> out.svc, pc |-> "append"]}
            /\ service' = [service EXCEPT ![r.h] = out.svc]
            /\ lastOp' = [NoOp EXCEPT !.op = "reprobe", !.h = r.h,
                             !.svc = out.svc]
    /\ UNCHANGED <<isRunning, unmanaged, managed, mutex, truncated, connClosed,
                   respCtxDone, respondPc, respondErr, announcers,
                   exitManaged, exitGoodbye>>
    /\ UNCHANGED <<probeVars, clientVars, netVars>>

\* reprobe: ReprobeService returns; an error ends the goroutine, otherwise
\* h.service = &probed (the mutex is not taken for it)
ReprobeDone(r) ==
    \E out \in ReprobeServiceResults(r.svc) : ReprobeReturn(r, out)

\* reprobe: Lock, r.managed = append(r.managed, h), Unlock and
\* `go r.announce(services(managed))`
ReprobeAppend(r) ==
    /\ r \in reprobing
    /\ r.pc = "append"
    /\ mutex = Unlocked
    /\ reprobing' = reprobing \ {r}
    /\ managed' = Append(managed, r.h)
    /\ LET tasks == announce(services(Append(managed, r.h)))
       IN  /\ announcers' = announcers \cup tasks
           /\ lastOp' = [NoOp EXCEPT !.op = "reprobe.append", !.h = r.h,
                            !.svc = service[r.h], !.spawned = tasks,
                            !.managed0 = managed]
    /\ UNCHANGED <<isRunning, unmanaged, service, mutex, truncated, connClosed,
                   respCtxDone, respondPc, respondErr, exitManaged, exitGoodbye>>
    /\ UNCHANGED <<probeVars, clientVars, netVars>>

\* the messages that reach the running responder on lo0: a browse query and,
\* for each managed service, a peer's answer that denies its SRV
RespRequests ==
    LET browse == [NewMsg EXCEPT
                     !.Question = <<Question(ServiceName(BaseService), FALSE)>>]
    IN  {NewRequest(browse, "peer", "lo0")}
        \cup
        {NewRequest([NewMsg EXCEPT
                        !.Answer = <<[SRV(service[h]) EXCEPT !.port = @ + 1]>>,
                        !.Response = TRUE], "peer", "lo0") :
            h \in SeqToSet(managed)}

\* New(): the responder after construction; no probe of the prober's
\* specification is in progress
RespInit ==
    /\ isRunning = FALSE
    /\ unmanaged = <<>>
    /\ managed = <<>>
    /\ service = <<>>
    /\ mutex = Unlocked
    /\ truncated = NoRequest
    /\ connClosed = FALSE
    /\ respCtxDone = FALSE
    /\ respondPc = "idle"
    /\ respondErr = ErrNil
    /\ announcers = {}
    /\ reprobing = {}
    /\ lastOp = NoOp
    /\ exitManaged = <<>>
    /\ exitGoodbye = <<>>

\* no call of probeService is observed
ProbeIdle ==
    /\ srv = ZeroService
    /\ probeOnce = FALSE
    /\ ctxDone = FALSE
    /\ pc = "idle"
    /\ round = 0
    /\ candidate = ZeroService
    /\ prevConflict = NoConflict
    /\ numHostConflicts = 0
    /\ numNameConflicts = 0
    /\ delay = 0
    /\ retS = ZeroService
    /\ retE = ErrNil
    /\ ifaceIdx = 0
    /\ conflict = NoConflict
    /\ queriesCount = 0
    /\ as = <<>>
    /\ aaaas = <<>>
    /\ probesSent = <<>>
    /\ roundConflict = FALSE
    /\ ctxObserved = FALSE

\* the observation of the last call of UpdateFrom: the request, the keys the
\* cache had before it and what it returned; for lookupType also es before
\* it and what add and rmv were called with
NoUpdate ==
    [req |-> NoRequest, had |-> {}, adds |-> <<>>, rmvs |-> {},
     es0 |-> {}, added |-> {}, removed |-> {}]

\* neither lookupInstance nor lookupType has been called
ClientIdle ==
    /\ call = "none"
    /\ target = <<>>
    /\ queries = 0
    /\ readCtxDone = FALSE
    /\ clientPc = "idle"
    /\ clientSrv = ZeroService
    /\ clientErr = ErrNil
    /\ cache = NewCache
    /\ es = {}
    /\ now = 0
    /\ lastUpdate = NoUpdate
    /\ sentQ = <<>>
    /\ wire = <<>>

RespNext ==
    \/ \E s \in AddServices : AddCall(s)
    \/ AddReturn
    \/ \E h \in 0..Len(service) : RemoveCall(h)
    \/ RemoveReturn
    \/ RespondCall
    \/ RespondRegister
    \/ RespondCancel
    \/ RespondCtxDone
    \/ RespondReturn
    \/ \E req \in RespRequests : HandleRequest(req) /\ UNCHANGED netVars
    \/ \E a \in announcers : AnnounceSend(a) /\ UNCHANGED netVars
    \/ \E r \in reprobing : ReprobeDone(r)
    \/ \E r \in reprobing : ReprobeAppend(r)

\* probeService is called; the responder plays no part
SpecProbeInit == ProbeInit /\ RespInit /\ ClientIdle

\* the first of the last rounds that are followed
ExhaustRound == MaxRounds - MaxConflictRounds + 1

\* probeService, called by ReprobeService (probeOnce, a context without
\* timeout), in round ExhaustRound after a peer has denied the SRV of the
\* candidate in every round so far: each round has renamed the candidate and
\* slept ProbeWait
ExhaustInit ==
    /\ srv \in {BaseService,
                 [BaseService EXCEPT !.Ifaces = <<"lo0">>,
                                     !.ifaceIPs = << <<"lo0", <<IPv4(4), IPv4(5)>> >> >>]}
    /\ probeOnce = TRUE
    /\ ctxDone = FALSE
    /\ pc = "loop"
    /\ round = ExhaustRound
    /\ numNameConflicts = ExhaustRound - 1
    /\ candidate = [srv EXCEPT !.Name = Renamed(@, ExhaustRound)]
    /\ prevConflict = NoConflict
    /\ delay = ProbeWait
    /\ numHostConflicts = 0
    /\ retS = ZeroService
    /\ retE = ErrNil
    /\ ifaceIdx = 0
    /\ conflict = NoConflict
    /\ queriesCount = 0
    /\ as = <<>>
    /\ aaaas = <<>>
    /\ probesSent = <<>>
    /\ roundConflict = FALSE
    /\ ctxObserved = FALSE

SpecExhaustInit == ExhaustInit /\ RespInit /\ ClientIdle

\* the last rounds of a probe that met a conflict in every round
SpecExhaust == SpecExhaustInit /\ [][ProbeNext]_vars

SpecProbe == SpecProbeInit /\ [][ProbeNext]_vars

(***************************************************************************)
(* The responder answering queries                                         *)
(***************************************************************************)
\* a second instance of the same type, on every multicast interface
ServiceEn == [BaseService EXCEPT !.Name = sBeta, !.Host = sHost]

\* what the responder manages while the queries arrive; the last list is one
\* instance that was added twice
QueryManaged ==
    {<<ServiceLo>>, <<ServiceLo, ServiceEn>>, <<ServiceLo, ServiceLo>>}

\* the names asked for: those of s as they are and in lower case, and a
\* name nobody holds
QueryNames(s) ==
    {ServiceInstanceName(s), ToLower(ServiceInstanceName(s)), ServiceName(s),
     Hostname(s), ServicesMetaQueryName(s), OtherHostname}

\* the Question sections: one question, multicast or unicast, or two
QueryQuestions(s) ==
    {<<Question(n, u)>> : n \in QueryNames(s), u \in BOOLEAN}
    \cup {<<Question(ServiceInstanceName(s), TRUE),
            Question(ServiceName(s), FALSE)>>,
          <<Question(OtherHostname, FALSE),
            Question(Hostname(s), FALSE)>>}

\* the known answers of a querier: any of the records of s it has cached
\* from interface name, the SRV also as a copy whose TTL has run down
QueryKnown(s, name) ==
    LET all == <<SRV(s), [SRV(s) EXCEPT !.ttl = 10, !.flush = TRUE], TXT(s),
                 PTR(s)>> \o A(s, name)
    IN  {Filter(all, LAMBDA rr : rr \in S) : S \in SUBSET SeqToSet(all)}

\* the Authority section of a peer that claims names of s: nothing, an SRV
\* for the instance of s that is later than its own, or an address for the
\* hostname of s that s does not have
QueryClaimed(s) ==
    {<<>>, <<[SRV(s) EXCEPT !.port = @ + 1]>>, <<ARecord(s, IPv4(9))>>}

\* the queries that reach the responder
QueryRequests ==
    LET s == service[managed[1]]
    IN  UNION {{NewRequest([NewMsg EXCEPT !.Question = qs, !.Answer = known,
                                          !.Ns = claimed],
                           "peer", name) :
                   qs \in QueryQuestions(s), known \in QueryKnown(s, name),
                   claimed \in QueryClaimed(s)} :
               name \in {"lo0", "en0"}}

\* Respond is in its loop with the services of one list of QueryManaged
QueryInit ==
    /\ service \in QueryManaged
    /\ managed = [k \in 1..Len(service) |-> k]
    /\ isRunning = TRUE
    /\ respondPc = "loop"
    /\ unmanaged = <<>>
    /\ mutex = Unlocked
    /\ truncated = NoRequest
    /\ connClosed = FALSE
    /\ respCtxDone = FALSE
    /\ respondErr = ErrNil
    /\ announcers = {}
    /\ reprobing = {}
    /\ lastOp = NoOp
    /\ exitManaged = <<>>
    /\ exitGoodbye = <<>>

\* one query is followed: the responder is the same after it
QueryNext ==
    /\ lastOp = NoOp
    /\ \E req \in QueryRequests : HandleRequest(req)
    /\ UNCHANGED netVars

SpecQueryInit == QueryInit /\ ProbeIdle /\ ClientIdle

SpecQuery == SpecQueryInit /\ [][QueryNext]_vars

\* the messages of two peers on lo0, each with or without the Truncated flag:
\* a question for the service type or none, and a list of known answers
TruncRequests ==
    {NewRequest([NewMsg EXCEPT !.Question = qs, !.Answer = known,
                               !.Truncated = tc], from, "lo0") :
        qs \in {<<>>, <<Question(ServiceName(ServiceLo), FALSE)>>},
        known \in {<<>>, <<PTR(ServiceLo)>>, <<SRV(ServiceLo)>>,
                   <<SRV(ServiceLo), TXT(ServiceLo)>>},
        tc \in BOOLEAN,
        from \in {"peerA", "peerB"}}

\* Respond is in its loop with one managed service
TruncInit ==
    /\ service = <<ServiceLo>>
    /\ managed = <<1>>
    /\ isRunning = TRUE
    /\ respondPc = "loop"
    /\ unmanaged = <<>>
    /\ mutex = Unlocked
    /\ truncated = NoRequest
    /\ connClosed = FALSE
    /\ respCtxDone = FALSE
    /\ respondErr = ErrNil
    /\ announcers = {}
    /\ reprobing = {}
    /\ lastOp = NoOp
    /\ exitManaged = <<>>
    /\ exitGoodbye = <<>>

TruncNext == (\E req \in TruncRequests : HandleRequest(req)) /\ UNCHANGED netVars

SpecTruncInit == TruncInit /\ ProbeIdle /\ ClientIdle

\* the responder reads the messages of the two peers in any order
SpecTrunc == SpecTruncInit /\ [][TruncNext]_vars

\* probeService with probeOnce, after MaxRounds rounds that each ended with a
\* conflict: the bare return hands back the empty service and no error
ExhaustedResult == [svc |-> ZeroService, err |-> ErrNil]

\* what ReprobeService(ctx, s) returns to reprobe, exhaustion included
ReprobeOutcomes(s) == ReprobeServiceResults(s) \cup {ExhaustedResult}

\* a second service bound to lo0
ServiceLoBeta == [ServiceLo EXCEPT !.Name = sBeta, !.Host = sHost]

\* a peer claims the instance name of ServiceLo with a later SRV record
ReprobeRequests ==
    {NewRequest([NewMsg EXCEPT
                    !.Answer = <<[SRV(ServiceLo) EXCEPT !.port = @ + 1]>>,
                    !.Response = TRUE], "peer", "lo0")}

\* Respond is in its loop with two managed services and every announcement
\* has been sent
ReprobeInit ==
    /\ service = <<ServiceLo, ServiceLoBeta>>
    /\ managed = <<1, 2>>
    /\ isRunning = TRUE
    /\ respondPc = "loop"
    /\ unmanaged = <<>>
    /\ mutex = Unlocked
    /\ truncated = NoRequest
    /\ connClosed = FALSE
    /\ respCtxDone = FALSE
    /\ respondErr = ErrNil
    /\ announcers = {}
    /\ reprobing = {}
    /\ lastOp = NoOp
    /\ exitManaged = <<>>
    /\ exitGoodbye = <<>>

ReprobeNext ==
    \/ \E req \in ReprobeRequests : HandleRequest(req) /\ UNCHANGED netVars
    \/ \E r \in reprobing : \E out \in ReprobeOutcomes(r.svc) : ReprobeReturn(r, out)
    \/ \E r \in reprobing : ReprobeAppend(r)
    \/ \E a \in announcers : AnnounceSend(a) /\ UNCHANGED netVars

SpecReprobeInit == ReprobeInit /\ ProbeIdle /\ ClientIdle

\* conflicts and the reprobes that follow them, with every outcome of the
\* prober
SpecReprobe == SpecReprobeInit /\ [][ReprobeNext]_vars

\* a new responder and its callers
SpecRespInit == RespInit /\ ProbeIdle /\ ClientIdle

SpecResp == SpecRespInit /\ [][RespNext]_vars

(***************************************************************************)
(* The resolver (lookupInstance) and the browser (lookupType)              *)
(***************************************************************************)
\* how far the clock is followed, in ticks
MaxClock == 3

\* how many addresses a cache entry collects before it is no longer followed
MaxAddrs == 2

\* the Question section of the client's query: srvQ and txtQ with the
\* unicast-response bit, or the PTR question for the service type
ClientQuestions ==
    IF call = "lookupInstance"
    THEN <<Question(target, TRUE), Question(target, TRUE)>>
    ELSE <<Question(target, FALSE)>>

\* the goroutine that feeds qs hands over one Query per multicast interface
NextQuery ==
    NewRequest([NewMsg EXCEPT !.Question = ClientQuestions], "client",
               multicastInterfaces[queries + 1])

\* time passes
Tick ==
    /\ now < MaxClock
    /\ now' = now + 1
    /\ UNCHANGED <<call, target, queries, readCtxDone, clientPc, clientSrv,
                   clientErr, cache, es, lastUpdate>>
    /\ UNCHANGED <<probeVars, respVars, netVars>>

\* the caller's context is cancelled or runs out
CtxCancel ==
    /\ clientPc = "select"
    /\ ~readCtxDone
    /\ readCtxDone' = TRUE
    /\ UNCHANGED <<call, target, queries, clientPc, clientSrv, clientErr,
                   cache, es, now, lastUpdate>>
    /\ UNCHANGED <<probeVars, respVars, netVars>>

\* lookupInstance, case q := <-qs: conn.SendQuery(q)
LookupSendQuery ==
    /\ call = "lookupInstance"
    /\ clientPc = "select"
    /\ queries < Len(multicastInterfaces)
    /\ queries' = queries + 1
    /\ sentQ' = Append(sentQ, NextQuery)
    /\ UNCHANGED <<call, target, readCtxDone, clientPc, clientSrv, clientErr,
                   cache, es, now, lastUpdate, wire>>
    /\ UNCHANGED <<probeVars, respVars>>

\* lookupInstance, case req := <-ch: the clock shows now in the loop of
\* UpdateFrom and now + dt in removeExpired; where req comes from is said by
\* the caller
LookupReceive(req, dt) ==
    /\ call = "lookupInstance"
    /\ clientPc = "select"
    /\ now + dt <= MaxClock
    /\ LET u == UpdateFrom(cache, req.msg, req.iface, now, now + dt)
       IN  /\ \A e \in u.services : Len(e.IPs) <= MaxAddrs
           /\ cache' = u.services
           /\ lastUpdate' = [NoUpdate EXCEPT !.req = req, !.had = CacheKeys(cache),
                                             !.adds = u.adds, !.rmvs = u.rmvs]
           /\ IF InCache(u.services, target)
              THEN /\ clientSrv' = CacheEntry(u.services, target)
                   /\ clientPc' = "returned"
              ELSE UNCHANGED <<clientSrv, clientPc>>
    /\ now' = now + dt
    /\ UNCHANGED <<call, target, queries, readCtxDone, clientErr, es>>
    /\ UNCHANGED <<probeVars, respVars>>

\* lookupInstance, case <-ctx.Done(): err = ctx.Err()
LookupCtxDone ==
    /\ call = "lookupInstance"
    /\ clientPc = "select"
    /\ readCtxDone
    /\ clientPc' = "returned"
    /\ clientErr' = ErrCtx
    /\ UNCHANGED <<call, target, queries, readCtxDone, clientSrv, cache, es,
                   now, lastUpdate>>
    /\ UNCHANGED <<probeVars, respVars, netVars>>

\* BrowseEntry{...}: the entry lookupType builds for the cached service s and
\* the k-th interface of s.ifaceIPs
BrowseEntry(s, k) ==
    [IPs |-> s.ifaceIPs[k][2], Host |-> s.Host, Port |-> s.Port,
     IfaceName |-> s.ifaceIPs[k][1], Name |-> s.Name, Type |-> s.Type,
     Domain |-> s.Domain, Text |-> s.Text]

\* a variant of browseAdds that reports the cached services of every type
C17_MutantBrowseAdds(c, known, name) ==
    UNION {{BrowseEntry(s, k) :
                k \in {j \in 1..Len(s.ifaceIPs) :
                          ~\E e \in known : /\ e.Name = s.Name
                                            /\ e.IfaceName = s.ifaceIPs[j][1]}} :
           s \in Services(c)}

\* a variant of browseAdds that does not look at the entries already reported
C38_MutantAddsAgain(c, known, name) ==
    UNION {{BrowseEntry(s, k) : k \in 1..Len(s.ifaceIPs)} :
           s \in {x \in Services(c) : ServiceName(x) = name}}

\* lookupType, the loop over cache.Services(): the entries appended to es and
\* handed to add; known is es before the loop
browseAdds(c, known, name) ==
    UNION {{BrowseEntry(s, k) :
                k \in {j \in 1..Len(s.ifaceIPs) :
                          ~\E e \in known : /\ e.Name = s.Name
                                            /\ e.IfaceName = s.ifaceIPs[j][1]}} :
           s \in {x \in Services(c) : ServiceName(x) = name}}

\* lookupType, the loop over es: the entries handed to rmv
browseRmvs(c, known) ==
    {e \in known :
        ~\E s \in Services(c) : ServiceInstanceName(s) = ServiceInstanceName(e)}

\* lookupType, case q := <-qs: conn.SendQuery(q)
BrowseSendQuery ==
    /\ call = "lookupType"
    /\ clientPc = "select"
    /\ queries < Len(multicastInterfaces)
    /\ queries' = queries + 1
    /\ sentQ' = Append(sentQ, NextQuery)
    /\ UNCHANGED <<call, target, readCtxDone, clientPc, clientSrv, clientErr,
                   cache, es, now, lastUpdate, wire>>
    /\ UNCHANGED <<probeVars, respVars>>

\* lookupType, case req := <-ch: UpdateFrom, then the add and the rmv
\* callbacks; es is the set of the entries reported and not yet removed
BrowseReceive(req, dt) ==
    /\ call = "lookupType"
    /\ clientPc = "select"
    /\ now + dt <= MaxClock
    /\ LET u == UpdateFrom(cache, req.msg, req.iface, now, now + dt)
           added == browseAdds(u.services, es, target)
           removed == browseRmvs(u.services, es \cup added)
       IN  /\ \A e \in u.services : Len(e.IPs) <= MaxAddrs
           /\ cache' = u.services
           /\ es' = (es \cup added) \ removed
           /\ lastUpdate' = [req |-> req, had |-> CacheKeys(cache), adds |-> u.adds,
                             rmvs |-> u.rmvs, es0 |-> es, added |-> added,
                             removed |-> removed]
    /\ now' = now + dt
    /\ UNCHANGED <<call, target, queries, readCtxDone, clientPc, clientSrv,
                   clientErr>>
    /\ UNCHANGED <<probeVars, respVars>>

\* lookupType, case <-ctx.Done(): return ctx.Err()
BrowseCtxDone ==
    /\ call = "lookupType"
    /\ clientPc = "select"
    /\ readCtxDone
    /\ clientPc' = "returned"
    /\ clientErr' = ErrCtx
    /\ UNCHANGED <<call, target, queries, readCtxDone, clientSrv, cache, es,
                   now, lastUpdate>>
    /\ UNCHANGED <<probeVars, respVars, netVars>>

\* a service of a peer, with a TXT record of two keys
PeerService ==
    [BaseService EXCEPT !.Text = << <<sKey, sOther>>, <<sOther, sKey>> >>]

\* a service of another type on another host
OtherService ==
    [BaseService EXCEPT !.Name = sBeta, !.Type = sTypeB, !.Host = sHost]

\* rr with a TTL of ttl seconds
WithTTL(rr, ttl) == [rr EXCEPT !.ttl = ttl]

\* an announcement of s with the address ip: every record lives one second
ShortAnnouncement(s, ip) ==
    <<WithTTL(SRV(s), 1), WithTTL(PTR(s), 1), WithTTL(TXT(s), 1),
      WithTTL(ARecord(s, ip), 1)>>

\* a response with the records answers, read at interface name
PeerResponse(answers, name) ==
    NewRequest([NewMsg EXCEPT !.Answer = answers, !.Response = TRUE],
               "peer", name)

\* what the browser reads: the announcement of the browsed service on lo0 or
\* on en0, its goodbye, its goodbye together with a TXT record, and the
\* announcement of a service of another type
BrowseRequests ==
    {PeerResponse(ShortAnnouncement(PeerService, IPv4(4)), "lo0"),
     PeerResponse(ShortAnnouncement(PeerService, IPv4(4)), "en0"),
     PeerResponse(<<WithTTL(PTR(PeerService), 0)>>, "lo0"),
     PeerResponse(<<WithTTL(PTR(PeerService), 0), WithTTL(TXT(PeerService), 1)>>,
                  "lo0"),
     PeerResponse(ShortAnnouncement(OtherService, IPv4(5)), "lo0")}

\* lookupType(ctx, service, conn, add, rmv) has reached its loop
BrowseInit ==
    /\ call = "lookupType"
    /\ target = ServiceName(PeerService)
    /\ queries = 0
    /\ readCtxDone = FALSE
    /\ clientPc = "select"
    /\ clientSrv = ZeroService
    /\ clientErr = ErrNil
    /\ cache = NewCache
    /\ es = {}
    /\ now = 0
    /\ lastUpdate = NoUpdate
    /\ sentQ = <<>>
    /\ wire = <<>>

BrowseNext ==
    \/ BrowseSendQuery
    \/ \E req \in BrowseRequests, dt \in 0..1 :
          BrowseReceive(req, dt) /\ UNCHANGED netVars
    \/ CtxCancel
    \/ BrowseCtxDone
    \/ Tick

SpecBrowseInit == BrowseInit /\ RespInit /\ ProbeIdle

\* a browser and the messages of its peers
SpecBrowse == SpecBrowseInit /\ [][BrowseNext]_vars

\* what the resolver reads on lo0 or en0: the announcement of the instance it
\* looks for, single records of it, and the announcement of another service
LookupRequests ==
    {PeerResponse(answers, name) :
        answers \in {ShortAnnouncement(PeerService, IPv4(4)),
                     <<WithTTL(PTR(PeerService), 1)>>,
                     <<WithTTL(SRV(PeerService), 1)>>,
                     <<WithTTL(TXT(PeerService), 1)>>,
                     ShortAnnouncement(OtherService, IPv4(5))},
        name \in {"lo0", "en0"}}

\* lookupInstance(ctx, instance, conn) has reached its loop
LookupInit ==
    /\ call = "lookupInstance"
    /\ target = ServiceInstanceName(PeerService)
    /\ queries = 0
    /\ readCtxDone = FALSE
    /\ clientPc = "select"
    /\ clientSrv = ZeroService
    /\ clientErr = ErrNil
    /\ cache = NewCache
    /\ es = {}
    /\ now = 0
    /\ lastUpdate = NoUpdate
    /\ sentQ = <<>>
    /\ wire = <<>>

LookupNext ==
    \/ LookupSendQuery
    \/ \E req \in LookupRequests, dt \in 0..1 :
          LookupReceive(req, dt) /\ UNCHANGED netVars
    \/ CtxCancel
    \/ LookupCtxDone
    \/ Tick

SpecLookupInit == LookupInit /\ RespInit /\ ProbeIdle

\* a resolver and the messages of its peers
SpecLookup == SpecLookupInit /\ [][LookupNext]_vars

\* the interface of the test transport: TestRegisterServiceWithExplicitIP
\* binds the service to it
testIface == "lo0"

\* the services the responder manages in a round trip: bound to testIface
\* with one address, with two, with an IPv6 address or with the addresses of
\* the interface; with or without Text; a renamed one; and names that hold
\* a "."
RoundServices ==
    {ServiceLo,
     [ServiceLo EXCEPT !.Text = PeerService.Text],
     [ServiceLo EXCEPT !.Text = << <<sKey, sEquation>> >>],
     [ServiceLo EXCEPT !.ifaceIPs = << <<testIface, <<IPv4(4), IPv4(5)>> >> >>],
     [ServiceLo EXCEPT !.ifaceIPs = << <<testIface, <<IPv6(6)>> >> >>],
     [ServiceLo EXCEPT !.ifaceIPs = <<>>],
     [ServiceLo EXCEPT !.Name = Renamed(sTest, 2)],
     [ServiceLo EXCEPT !.Name = sDotted],
     [ServiceLo EXCEPT !.Host = sDotted]}

\* newResponder(conn), addManaged(sv) and Respond(ctx) on one end of the
\* transport: the announcers of sv have been started; lookupInstance for the
\* instance name of sv on the other end has reached its loop
RoundInit ==
    /\ service \in {<<s>> : s \in RoundServices}
    /\ managed = <<1>>
    /\ isRunning = TRUE
    /\ respondPc = "loop"
    /\ unmanaged = <<>>
    /\ mutex = Unlocked
    /\ truncated = NoRequest
    /\ connClosed = FALSE
    /\ respCtxDone = FALSE
    /\ respondErr = ErrNil
    /\ announcers = announce(service)
    /\ reprobing = {}
    /\ lastOp = NoOp
    /\ exitManaged = <<>>
    /\ exitGoodbye = <<>>
    /\ call = "lookupInstance"
    /\ target = ServiceInstanceName(service[1])
    /\ queries = 0
    /\ readCtxDone = FALSE
    /\ clientPc = "select"
    /\ clientSrv = ZeroService
    /\ clientErr = ErrNil
    /\ cache = NewCache
    /\ es = {}
    /\ now = 0
    /\ lastUpdate = NoUpdate
    /\ sentQ = <<>>
    /\ wire = <<>>

\* the responder reads the oldest query of the resolver at testIface, and
\* its responses travel to the resolver
RoundHandle ==
    /\ sentQ # <<>>
    /\ HandleRequest(NewRequest(Head(sentQ).msg, "client", testIface))
    /\ sentQ' = Tail(sentQ)
    /\ wire' = wire \o lastOp'.sent

\* an announcement of the responder travels to the resolver
RoundAnnounce ==
    /\ \E a \in announcers : AnnounceSend(a)
    /\ wire' = wire \o lastOp'.sent
    /\ UNCHANGED sentQ

\* the resolver reads the oldest message on its way at testIface
RoundReceive ==
    /\ wire # <<>>
    /\ \E dt \in 0..1 :
          LookupReceive(NewRequest(Head(wire).msg, "responder", testIface), dt)
    /\ wire' = Tail(wire)
    /\ UNCHANGED sentQ

RoundNext ==
    \/ LookupSendQuery
    \/ RoundHandle
    \/ RoundAnnounce
    \/ RoundReceive

SpecRoundInit == RoundInit /\ ProbeIdle

\* a responder and a resolver on the two ends of one transport
SpecRound == SpecRoundInit /\ [][RoundNext]_vars

\* the strings of a TXT record: two values for the key "a" and one for "o"
TxtStrings ==
    {sKey \o sEq \o <<"b">>, sKey \o sEq \o <<"c">>, <<"o">> \o sEq \o <<"b">>}

\* the sequences of at most n elements of S
SeqsUpTo(S, n) == UNION {[1..k -> S] : k \in 0..n}

\* the sequences that hold each element of S at most once
Arrangements(S) ==
    {q \in SeqsUpTo(S, Cardinality(S)) :
        \A i, j \in 1..Len(q) : i # j => q[i] # q[j]}

\* the records of the announcement of PeerService
PeerRecords == SeqToSet(ShortAnnouncement(PeerService, IPv4(4)))

\* a service whose instance name holds a "." in its first label
DottedService == [PeerService EXCEPT !.Name = sDotted]

\* the messages handed to UpdateFrom at lo0: the records of an announcement
\* in every number and order, a TXT record with up to three strings, single
\* records without a TTL, an AAAA record, the announcement of a second
\* service, and a PTR with the SRV of a service with a dotted name
CacheRequests ==
    {PeerResponse(answers, "lo0") :
        answers \in Arrangements(PeerRecords)
            \cup {<<[WithTTL(TXT(PeerService), 1) EXCEPT !.txt = txt]>> :
                      txt \in SeqsUpTo(TxtStrings, 3)}
            \cup {<<WithTTL(PTR(PeerService), 0)>>,
                   <<WithTTL(SRV(PeerService), 0)>>,
                   <<WithTTL(AAAARecord(PeerService, IPv6(6)), 1)>>,
                   ShortAnnouncement(OtherService, IPv4(5)),
                   <<WithTTL(PTR(DottedService), 1),
                     WithTTL(SRV(DottedService), 1)>>}}

\* the cache after the announcement of PeerService was read at lo0
KnownCache ==
    UpdateFrom(NewCache,
               PeerResponse(ShortAnnouncement(PeerService, IPv4(4)), "lo0").msg,
               "lo0", 0, 0).services

\* cache.UpdateFrom(req.msg, req.iface) on its own: the clock shows now in
\* its loop and now + dt in removeExpired; one call is followed
CacheUpdate(req, dt) ==
    /\ lastUpdate = NoUpdate
    /\ now + dt <= MaxClock
    /\ LET u == UpdateFrom(cache, req.msg, req.iface, now, now + dt)
       IN  /\ \A e \in u.services : Len(e.IPs) <= MaxAddrs
           /\ cache' = u.services
           /\ lastUpdate' = [NoUpdate EXCEPT !.req = req,
                                             !.had = CacheKeys(cache),
                                             !.adds = u.adds, !.rmvs = u.rmvs]
    /\ now' = now + dt
    /\ UNCHANGED <<call, target, queries, readCtxDone, clientPc, clientSrv,
                   clientErr, es>>
    /\ UNCHANGED <<probeVars, respVars, netVars>>

\* a cache that is new or holds PeerService
CacheInit ==
    /\ call = "none"
    /\ target = <<>>
    /\ queries = 0
    /\ readCtxDone = FALSE
    /\ clientPc = "idle"
    /\ clientSrv = ZeroService
    /\ clientErr = ErrNil
    /\ cache \in {NewCache, KnownCache}
    /\ es = {}
    /\ now = 0
    /\ lastUpdate = NoUpdate
    /\ sentQ = <<>>
    /\ wire = <<>>

CacheNext == \E req \in CacheRequests, dt \in 0..1 : CacheUpdate(req, dt)

SpecCacheInit == CacheInit /\ RespInit /\ ProbeIdle

\* one call of UpdateFrom on a new cache or on one that holds a service
SpecCache == SpecCacheInit /\ [][CacheNext]_vars

(***************************************************************************)
(* Claims about the prober                                                 *)
(***************************************************************************)
\* probeService has returned (s, e)
ProbeReturned == pc = "done"

\* C1: whenever probeService returns err == nil, the returned service is the
\* candidate of a complete probing round: three probe queries were sent on
\* every interface of the service and no conflicting record was observed
\* during that round.
C1_NilErrorMeansVerified ==
    (ProbeReturned /\ retE = ErrNil) =>
        /\ retS = candidate
        /\ ~roundConflict
        /\ \A k \in 1..Len(Interfaces(candidate)) : probesSent[k] = MaxQueries

\* C2: if the prober sees its context cancelled (or timed out) while a round
\* is in progress, probeService returns the context's error and no claimed
\* service, whichever interface was being probed and whether or not a
\* conflict had been seen.
C2_CancelReturnsCtxError ==
    (ProbeReturned /\ ctxObserved) => (retE = ErrCtx /\ retS = ZeroService)

\* C20: when probeService returns after its 100th round has ended with a
\* conflict, it returns an error; and it never returns the empty service
\* together with a nil error.
C20_ExhaustionIsAnError ==
    ProbeReturned =>
        /\ round > MaxRounds => retE # ErrNil
        /\ retE = ErrNil => retS # ZeroService

\* SRV records for the candidate's instance name, all of them valid
TieBreakSRVs ==
    {[SRV(candidate) EXCEPT !.priority = pr, !.weight = w, !.port = p,
                            !.target = t] :
        pr \in 0..1, w \in 0..1, p \in 1..2,
        t \in {Hostname(candidate), OtherHostname}}

\* a is lexicographically lower than b: priority, weight, port, then target
LexLower(a, b) ==
    \/ a.priority < b.priority
    \/ a.priority = b.priority /\ a.weight < b.weight
    \/ a.priority = b.priority /\ a.weight = b.weight /\ a.port < b.port
    \/ /\ a.priority = b.priority /\ a.weight = b.weight /\ a.port = b.port
       /\ StrCompare(a.target, b.target) < 0

NthName(base, k) == IF k = 0 THEN base ELSE base \o <<"-">> \o Itoa(k + 1)

\* a round of probeService ends with a conflict and the wait for the next
RoundEndsInConflict == pc = "select" /\ pc' = "sleep"

\* C26: a round that ends with a hostname conflict renames Host exactly when
\* the previous round left a hostname conflict unresolved or the prober is
\* reprobing (probeOnce), and a conflict that did not rename is left
\* unresolved for the next round; likewise, and independently, for the
\* service-name conflict and Name; after k renames the name is the original
\* one followed by "-" and k+1; ProbeService, having renamed the host once by
\* its third round and meeting no conflict in that round, claims "Alpha-2"
C26_RenameRule ==
    [][/\ RoundEndsInConflict =>
            LET renameHost == conflict.hostname /\ (prevConflict.hostname \/ probeOnce)
                renameName == conflict.serviceName
                                 /\ (prevConflict.serviceName \/ probeOnce)
            IN  /\ numHostConflicts' = numHostConflicts + (IF renameHost THEN 1 ELSE 0)
                /\ numNameConflicts' = numNameConflicts + (IF renameName THEN 1 ELSE 0)
                /\ prevConflict'.hostname = (conflict.hostname /\ ~renameHost)
                /\ prevConflict'.serviceName = (conflict.serviceName /\ ~renameName)
       /\ ~RoundEndsInConflict =>
            UNCHANGED <<candidate, numHostConflicts, numNameConflicts>>
       /\ candidate' = [srv EXCEPT !.Host = NthName(srv.Host, numHostConflicts'),
                                   !.Name = NthName(srv.Name, numNameConflicts')]
       /\ (ProbeReturned' /\ retE' = ErrNil /\ ~probeOnce /\ round' = 3
             /\ numHostConflicts' = 1)
            => retS'.Host = <<"A", "l", "p", "h", "a", "-", "2">>
      ]_vars

\* ProbeService met a hostname conflict in its first two rounds and none in
\* the third, and has claimed Alpha-2
C26_Witness ==
    /\ ProbeReturned
    /\ retE = ErrNil
    /\ ~probeOnce
    /\ round = 3
    /\ numHostConflicts = 1
    /\ numNameConflicts = 0
    /\ retS = [srv EXCEPT !.Host = <<"A", "l", "p", "h", "a", "-", "2">>]

\* probeAtInterface sends a probe query
SendsProbe ==
    /\ pc = "select" /\ pc' = "select" /\ ifaceIdx' = ifaceIdx
    /\ probesSent'[ifaceIdx] = probesSent[ifaceIdx] + 1

\* probeAtInterface returns without a conflict while its context is live
ReturnsNoConflict ==
    /\ pc = "select" /\ ~hasAny(conflict) /\ ~ctxDone
    /\ (pc' # "select" \/ ifaceIdx' # ifaceIdx)

\* C27: probeAtInterface sends a probe only while no conflict is recorded,
\* at most three of them, and each one after the first when a wait of 250 ms
\* has ended; it returns without a conflict (its context not cancelled) only
\* when three probes are sent and the 250 ms that follow the third are over;
\* and while the peers send nothing that conflicts on the interface it
\* arrives on, no conflict is recorded, whatever arrives from other interfaces
C27_ThreeProbesPerInterface ==
    [][/\ SendsProbe =>
            /\ ~hasAny(conflict)
            /\ probesSent[ifaceIdx] < MaxQueries
            /\ probesSent[ifaceIdx] >= 1 => queryTime = QueryWait
       /\ ReturnsNoConflict =>
            /\ probesSent[ifaceIdx] = MaxQueries
            /\ queryTime = QueryWait
       /\ (pc' = "select" /\ ~PeerAnswers') => ~hasAny(conflict')
      ]_vars

\* a service of one interface was probed three times there and is claimed
C27_Witness ==
    /\ ProbeReturned
    /\ retE = ErrNil
    /\ ~ctxDone
    /\ ~roundConflict
    /\ Len(Interfaces(candidate)) = 1
    /\ probesSent = <<MaxQueries>>

\* C36: while probeAtInterface waits in its select, its slices as and aaaas
\* hold the candidate's address records for the probed interface, in their
\* order, whatever messages equalAs and equalAAAAs have compared them with
C36_IntendedSetUnchanged ==
    pc = "select" =>
        /\ as = A(candidate, Interfaces(candidate)[ifaceIdx])
        /\ aaaas = AAAA(candidate, Interfaces(candidate)[ifaceIdx])

(***************************************************************************)
(* Claims about the responder                                              *)
(***************************************************************************)
\* the goodbye record of service s
GoodbyePTR(s) == [PTR(s) EXCEPT !.ttl = 0]

\* the responses sent hold a goodbye for s on each interface it was announced on
GoodbyeSentFor(s, sent) ==
    \A name \in SendIfaces(s) :
        \E j \in 1..Len(sent) :
            /\ sent[j].iface = name
            /\ \E i \in 1..Len(sent[j].msg.Answer) :
                  sent[j].msg.Answer[i] = GoodbyePTR(s)

\* C3: when Remove(h) has returned for a handle h that Add handed out, a
\* goodbye for h's service was sent and h is in neither the pending nor the
\* managed list, in whatever state the service was.
C3_RemoveSaysGoodbyeAndForgets ==
    (lastOp.op = "Remove" /\ lastOp.h \in 1..Len(service)) =>
        /\ GoodbyeSentFor(service[lastOp.h], lastOp.sent)
        /\ lastOp.h \notin SeqToSet(managed) \cup SeqToSet(unmanaged)

\* C4: Remove of a handle that is not in the managed list sends nothing and
\* leaves both lists as they were; Remove of a managed handle sends exactly one
\* goodbye sequence (each interface twice), cuts the handle out and leaves it
\* unmanaged, so that the next Remove of it is the first case.
C4_RemoveUnmanagedIsNoop ==
    lastOp.op = "Remove" =>
        /\ lastOp.h \notin SeqToSet(managed)
        /\ unmanaged = lastOp.unmanaged0
        /\ IF lastOp.h \in SeqToSet(lastOp.managed0)
           THEN /\ managed = Filter(lastOp.managed0, LAMBDA x : x # lastOp.h)
                /\ Len(lastOp.sent) = 2 * Cardinality(SendIfaces(lastOp.svc))
                /\ \A j \in 1..Len(lastOp.sent) :
                      lastOp.sent[j].msg.Answer = <<GoodbyePTR(lastOp.svc)>>
           ELSE /\ managed = lastOp.managed0
                /\ lastOp.sent = <<>>

\* a handle is removed that was removed before and is managed no more, while
\* another one is managed
C4_Witness ==
    /\ lastOp.op = "Remove"
    /\ lastOp.h \in 1..Len(service)
    /\ lastOp.h \notin SeqToSet(lastOp.managed0) \cup SeqToSet(lastOp.unmanaged0)
    /\ Len(lastOp.managed0) > 0
    /\ reprobing = {}

\* C5: Add before Respond only appends the handle to the pending list: nothing
\* is sent, no announcement is started. Add while the responder runs has
\* probed; if the probe returned no error, the service the probe returned (the
\* submitted one, possibly renamed) is appended to the managed list and its
\* announcement is started on each of its interfaces; if the probe failed, the
\* error is Add's result and neither list has changed.
C5_AddPendingOrProbed ==
    lastOp.op = "Add" =>
        IF ~lastOp.running0
        THEN /\ lastOp.err = ErrNil
             /\ lastOp.sent = <<>> /\ lastOp.spawned = {}
             /\ unmanaged = Append(lastOp.unmanaged0, lastOp.h)
             /\ managed = lastOp.managed0
             /\ service[lastOp.h] = lastOp.arg
        ELSE IF lastOp.err = ErrNil
        THEN /\ managed = Append(lastOp.managed0, lastOp.h)
             /\ unmanaged = lastOp.unmanaged0
             /\ service[lastOp.h] = lastOp.svc
             /\ lastOp.sent = <<>>
             /\ \A name \in SendIfaces(lastOp.svc) :
                   [svc |-> lastOp.svc, iface |-> name, n |-> 1] \in lastOp.spawned
        ELSE /\ managed = lastOp.managed0
             /\ unmanaged = lastOp.unmanaged0
             /\ lastOp.spawned = {}

\* Add on a running responder has put a renamed service among the managed ones
C5_Witness ==
    /\ lastOp.op = "Add"
    /\ lastOp.running0
    /\ lastOp.err = ErrNil
    /\ lastOp.svc # lastOp.arg
    /\ SendIfaces(lastOp.svc) # {}
    /\ Len(managed) = 2

\* C6: when Respond has returned the error of its cancelled context, a goodbye
\* was sent for every service that was managed when the cancellation was seen.
C6_CancelSaysGoodbyeForAll ==
    (respondPc = "returned" /\ respondErr = ErrCtx) =>
        \A k \in 1..Len(exitManaged) : GoodbyeSentFor(exitManaged[k], exitGoodbye)

\* C7: no announcement of a service is sent while a reprobe goroutine, started
\* by a conflict, is probing that service again.
C7_NoAnnouncementWhileReprobed ==
    lastOp.op = "announce" => ~lastOp.reprobed

(***************************************************************************)
(* Claims about the answers to queries                                     *)
(***************************************************************************)
\* handleRequest has handled a request while these services were managed
Handled == lastOp.op = "handleRequest"

HandledBy == services(managed)

\* question k of the handled request asks for the instance name of s
AsksInstance(k, s) ==
    ToLower(lastOp.req.msg.Question[k].Name) = ToLower(ServiceInstanceName(s))

\* the records of section rrs of type t that belong to the instance of s
InstanceRecords(rrs, t, s) ==
    Filter(rrs, LAMBDA rr : rr.type = t /\ rr.name = ServiceInstanceName(s))

\* the response sent for question k has exactly one SRV and one TXT of s in
\* its Answer section, both with the cache-flush bit
AnswersInstance(k, s) ==
    \E j \in 1..Len(lastOp.sent) :
        /\ lastOp.asked[j] = k
        /\ \A t \in {"SRV", "TXT"} :
              LET rrs == InstanceRecords(lastOp.sent[j].msg.Answer, t, s)
              IN  Len(rrs) = 1 /\ rrs[1].flush

\* the instance name of s belongs to one managed service only
OnlyInstance(s) ==
    Cardinality({i \in 1..Len(HandledBy) :
                    ToLower(ServiceInstanceName(HandledBy[i]))
                       = ToLower(ServiceInstanceName(s))}) = 1

\* C8: for a query whose question names the instance of a managed service,
\* the response sent for that question has exactly one SRV and one TXT of the
\* instance in its Answer section, both with the cache-flush bit, whatever the
\* request's own Answer section holds.
C8_InstanceAnswerHasSrvAndTxt ==
    Handled =>
        \A k \in 1..Len(lastOp.req.msg.Question) :
        \A i \in 1..Len(HandledBy) :
            AsksInstance(k, HandledBy[i]) => AnswersInstance(k, HandledBy[i])

\* C8 as it holds: the same, for an instance that one managed service holds
\* and a request whose Answer section lists neither its SRV nor its TXT.
C8_InstanceAnswerUnlessKnown ==
    Handled =>
        \A k \in 1..Len(lastOp.req.msg.Question) :
        \A i \in 1..Len(HandledBy) :
            ( /\ AsksInstance(k, HandledBy[i])
              /\ OnlyInstance(HandledBy[i])
              /\ ~Listed(SRV(HandledBy[i]), lastOp.req.msg.Answer)
              /\ ~Listed(TXT(HandledBy[i]), lastOp.req.msg.Answer) )
            => AnswersInstance(k, HandledBy[i])

\* an instance query in lower case that lists the PTR as known is answered
C8_Witness ==
    /\ Handled
    /\ Len(lastOp.req.msg.Question) = 1
    /\ lastOp.req.msg.Question[1].Name = ToLower(ServiceInstanceName(ServiceLo))
    /\ lastOp.req.msg.Question[1].Name # ServiceInstanceName(ServiceLo)
    /\ OnlyInstance(ServiceLo)
    /\ lastOp.req.msg.Answer = <<PTR(ServiceLo)>>
    /\ AnswersInstance(1, ServiceLo)

\* C9: no record that the request's Answer section lists is in the response
\* built for the request, neither in its Answer nor in its Additional section.
C9_KnownAnswerNowhere ==
    Handled =>
        \A j \in 1..Len(lastOp.sent) :
        \A i \in 1..Len(lastOp.req.msg.Answer) :
            /\ ~Listed(lastOp.req.msg.Answer[i], lastOp.sent[j].msg.Answer)
            /\ ~Listed(lastOp.req.msg.Answer[i], lastOp.sent[j].msg.Extra)

\* C9 as it holds: no record that the request's Answer section lists is in
\* the Answer section of a response built for the request.
C9_KnownAnswerNotInAnswer ==
    Handled =>
        \A j \in 1..Len(lastOp.sent) :
        \A i \in 1..Len(lastOp.req.msg.Answer) :
            ~Listed(lastOp.req.msg.Answer[i], lastOp.sent[j].msg.Answer)

\* an instance query that lists SRV and TXT gets the PTR alone
C9_Witness ==
    /\ Handled
    /\ lastOp.req.msg.Question = <<Question(ServiceInstanceName(ServiceLo), FALSE)>>
    /\ lastOp.req.msg.Answer = <<SRV(ServiceLo), TXT(ServiceLo)>>
    /\ HandledBy = <<ServiceLo>>
    /\ Len(lastOp.sent) = 1
    /\ lastOp.sent[1].msg.Answer = <<PTR(ServiceLo)>>

\* some managed service has an answer to question k that the request does not
\* list as known
HasAnswer(k) ==
    \E i \in 1..Len(HandledBy) :
        LET msgs == handleQuestion(lastOp.req.msg.Question[k], lastOp.req,
                                   HandledBy[i])
        IN  Len(msgs) > 0 /\ Len(msgs[1].Answer) > 0

\* the answer records service s holds for question k of the handled request,
\* before any of them is suppressed
AnswersFor(k, s) ==
    LET asking == [lastOp.req EXCEPT !.msg.Answer = <<>>]
        msgs == handleQuestion(lastOp.req.msg.Question[k], asking, s)
    IN  IF Len(msgs) = 0 THEN {} ELSE SeqToSet(msgs[1].Answer)

\* every answer record of every managed service for question k is listed in
\* the request's Answer section, or no managed service has one
AllSuppressed(k) ==
    \A i \in 1..Len(HandledBy) :
        \A rr \in AnswersFor(k, HandledBy[i]) : Listed(rr, lastOp.req.msg.Answer)

\* C28: a question for which every answer record of every managed service is
\* listed in the request's Answer section, or whose name no managed service
\* matches, gets no message: the number of the messages sent for a request is
\* at most the number of its other questions, and no such question is among
\* those that were answered
C28_AllSuppressedSendsNothing ==
    Handled =>
        /\ \A k \in 1..Len(lastOp.req.msg.Question) :
              AllSuppressed(k) => k \notin SeqToSet(lastOp.asked)
        /\ Len(lastOp.sent) <=
              Cardinality({k \in 1..Len(lastOp.req.msg.Question) : ~AllSuppressed(k)})

\* a query for the service type that lists the PTR as known gets no message
C28_Witness ==
    /\ Handled
    /\ HandledBy = <<ServiceLo>>
    /\ lastOp.req.msg.Question = <<Question(ServiceName(ServiceLo), FALSE)>>
    /\ lastOp.req.msg.Answer = <<PTR(ServiceLo)>>
    /\ AnswersFor(1, ServiceLo) = {PTR(ServiceLo)}
    /\ lastOp.sent = <<>>

\* C10: the questions that have an answer get one response each, in their
\* order, and no other question gets one; the response goes to the requester's
\* address if the question's unicast-response bit is set and to the multicast
\* group otherwise, and always out of the interface the request arrived on.
C10_OneResponsePerQuestion ==
    Handled =>
        /\ lastOp.asked =
              Filter([k \in 1..Len(lastOp.req.msg.Question) |-> k], HasAnswer)
        /\ Len(lastOp.sent) = Len(lastOp.asked)
        /\ \A j \in 1..Len(lastOp.sent) :
              /\ lastOp.sent[j].iface = lastOp.req.iface
              /\ lastOp.sent[j].addr =
                    IF lastOp.req.msg.Question[lastOp.asked[j]].unicast
                    THEN lastOp.req.from ELSE Multicast

\* a request with a unicast and a multicast question, both answered, on en0
C10_Witness ==
    /\ Handled
    /\ Len(lastOp.req.msg.Question) = 2
    /\ lastOp.req.iface = "en0"
    /\ lastOp.asked = <<1, 2>>
    /\ lastOp.sent[1].addr = lastOp.req.from
    /\ lastOp.sent[2].addr = Multicast
    /\ lastOp.sent[1].iface = "en0" /\ lastOp.sent[2].iface = "en0"

(***************************************************************************)
(* Claims about announcements and goodbyes                                 *)
(***************************************************************************)
\* rr with the cache-flush bit
Flushed(rr) == [rr EXCEPT !.flush = TRUE]

\* the announcement of service s on interface name, record by record
Announced(s, name) ==
    <<Flushed(SRV(s)), PTR(s), Flushed(TXT(s))>>
    \o [k \in 1..Len(A(s, name)) |-> Flushed(A(s, name)[k])]
    \o [k \in 1..Len(AAAA(s, name)) |-> Flushed(AAAA(s, name)[k])]

\* the goroutine that announceAtInterface runs for s on name is at its n-th send
Announcer(s, name, n) == [svc |-> s, iface |-> name, n |-> n]

\* C18: an operation that starts announcements starts one goroutine for each
\* managed service and each of its interfaces that has an address, and none
\* for an interface without one; each goroutine sends the same response twice
\* (SRV, PTR, TXT, A, AAAA, the cache-flush bit on all but the PTR) to the
\* multicast group of its interface, the second send one second after the
\* first, and then ends.
C18_AnnouncedTwice ==
    /\ \A a \in announcers :
          a.n \in {1, 2} /\ Len(IPsAtInterface(a.svc, a.iface)) > 0
    /\ lastOp.spawned # {} =>
          lastOp.spawned =
             UNION {{Announcer(service[managed[k]], name, 1) :
                        name \in {i \in SeqToSet(Interfaces(service[managed[k]])) :
                                     Len(IPsAtInterface(service[managed[k]], i)) > 0}} :
                    k \in 1..Len(managed)}
    /\ lastOp.op = "announce" =>
          /\ Len(lastOp.sent) = 1
          /\ lastOp.sent[1].addr = Multicast
          /\ lastOp.sent[1].iface \in SeqToSet(Interfaces(lastOp.svc))
          /\ Len(IPsAtInterface(lastOp.svc, lastOp.sent[1].iface)) > 0
          /\ lastOp.sent[1].msg.Answer = Announced(lastOp.svc, lastOp.sent[1].iface)
          /\ lastOp.sent[1].msg.Ns = <<>> /\ lastOp.sent[1].msg.Extra = <<>>
          /\ IF lastOp.n = 1
             THEN /\ lastOp.wait = 0
                  /\ Announcer(lastOp.svc, lastOp.sent[1].iface, 2) \in announcers
             ELSE /\ lastOp.n = 2
                  /\ lastOp.wait = AnnounceWait
                  /\ Announcer(lastOp.svc, lastOp.sent[1].iface, 2) \notin announcers

\* the second announcement of a service is sent while a second service, bound
\* to an interface without address, is managed too and has no goroutine
C18_Witness ==
    /\ lastOp.op = "announce"
    /\ lastOp.n = 2
    /\ lastOp.svc = ServiceLo
    /\ \E k \in 1..Len(managed) : service[managed[k]] = ServiceDown
    /\ announcers = {}

\* C19: every goodbye that Remove sends for a service holds the records of
\* the service's announcement on that interface (SRV, PTR, TXT, A, AAAA), each
\* with TTL 0.
C19_GoodbyeIsAnnouncementWithTTL0 ==
    (lastOp.op = "Remove" /\ lastOp.sent # <<>>) =>
        \A j \in 1..Len(lastOp.sent) :
           LET rrs == Announced(lastOp.svc, lastOp.sent[j].iface)
           IN  \A k \in 1..Len(rrs) :
                  \E i \in 1..Len(lastOp.sent[j].msg.Answer) :
                     /\ SameRecord(lastOp.sent[j].msg.Answer[i], rrs[k])
                     /\ lastOp.sent[j].msg.Answer[i].ttl = 0

(***************************************************************************)
(* Claims about reprobing and the lock                                     *)
(***************************************************************************)
\* C21: a reprobe that fails, by an error or by running out of rounds, drops
\* the service: its handle does not come back into r.managed and nothing is
\* announced for it, and the other managed service stays as it is
C21_FailedReprobeDropsService ==
    /\ \A k \in 1..Len(managed) : service[managed[k]] # ZeroService
    /\ \A a \in announcers : a.svc # ZeroService
    /\ (lastOp.op = "reprobe" /\ lastOp.err # ErrNil)
          => /\ lastOp.h \notin SeqToSet(managed)
             /\ ~\E r \in reprobing : r.h = lastOp.h
    /\ 2 \in SeqToSet(managed) /\ service[2] = ServiceLoBeta

\* C22: the mutex of the responder is never held while a probe is in
\* progress (Add after start, Respond registering the pending handles) or
\* while Remove sleeps between its goodbyes, so that a request that arrives
\* while Respond is in its loop can be handled
C22_ProbeAndSleepOutsideLock ==
    /\ mutex.op \notin {"Add", "Respond", "Remove"}
    /\ respondPc = "loop" => mutex = Unlocked

\* C31: when Respond has returned, whatever it returns, it does not hold the
\* responder's mutex any more
C31_RespondReturnsUnlocked ==
    respondPc = "returned" => mutex.op \notin {"Respond", "Respond.returned"}

\* C32: a handle that Remove has just returned for is not put in the managed
\* list by the step that follows, whatever goroutine takes it
C32_RemovedStaysRemoved ==
    [][(lastOp.op = "Remove" /\ lastOp.h \in 1..Len(service))
          => lastOp.h \notin SeqToSet(managed')]_vars

\* C33: when Remove has sent the goodbye of a service and returned, the step
\* that follows is not an announcement of that service
C33_NoAnnouncementAfterGoodbye ==
    [][(lastOp.op = "Remove" /\ Len(lastOp.sent) > 0)
          => ~(lastOp'.op = "announce" /\ lastOp'.svc = lastOp.svc)]_vars

\* respond, case <-ctx.Done(): the step that reads r.managed for the goodbye
ReadsManagedOnExit == respondPc = "loop" /\ respondPc' = "goodbye"

\* C34: while Add or Remove holds the mutex, no other goroutine writes
\* isRunning, r.managed or r.unmanaged, and respond does not read r.managed
\* for its goodbye
C34_SharedStateUnderLock ==
    [][mutex.op \in {"Add", "Remove"} =>
          /\ ~ReadsManagedOnExit
          /\ mutex' = mutex => UNCHANGED <<isRunning, managed, unmanaged>>]_vars

\* no handle occurs twice in the list hs
NoDuplicates(hs) == \A i, j \in 1..Len(hs) : hs[i] = hs[j] => i = j

\* C35: no handle occurs twice in the managed list, and, unless Respond is in
\* its loop over the pending handles with the mutex held, no handle is in both
\* the managed and the pending list
C35_ListsDisjoint ==
    /\ NoDuplicates(managed)
    /\ mutex.op # "Respond" => SeqToSet(managed) \cap SeqToSet(unmanaged) = {}

(***************************************************************************)
(* Claims about the cache                                                  *)
(***************************************************************************)
\* the instances the message m says goodbye to: its PTR records with TTL 0
Goodbyes(m) ==
    {rr.ptr : rr \in {x \in SeqToSet(m.Answer \o m.Ns \o m.Extra) :
                        x.type = "PTR" /\ x.ttl = 0}}

\* C13: a PTR with TTL 0 for an instance that is in the cache removes the
\* entry within the same call of UpdateFrom: the entry is in the list of the
\* removed entries and is not in Services() when the call has returned,
\* whatever else the message carries and however little time has passed
C13_GoodbyeRemovesEntry ==
    \A key \in Goodbyes(lastUpdate.req.msg) \cap lastUpdate.had :
        /\ \E e \in lastUpdate.rmvs : ServiceInstanceName(e) = key
        /\ ~InCache(Services(cache), key)

\* C14: an entry is not in Services() at any time later than its TTL after
\* its last record with a TTL was seen, whether or not UpdateFrom has been
\* called in the meantime
C14_ExpiredEntryAbsent ==
    \A e \in Services(cache) : ~(now > e.expiration)

\* the entries known report the instance of s at the k-th interface of s
Reported(known, s, k) ==
    \E e \in known : /\ ServiceInstanceName(e) = ServiceInstanceName(s)
                      /\ e.IfaceName = s.ifaceIPs[k][1]

\* C17: after each update of the cache the browser has called add for every
\* (instance, interface) pair of the browsed type that is in the cache and
\* was not reported, with the addresses the cache has for it, and rmv for
\* every reported entry whose instance is no longer in the cache; no callback
\* is made for an instance of another type
C17_CallbacksFollowCache ==
    /\ \A s \in Services(cache) : \A k \in 1..Len(s.ifaceIPs) :
          (ServiceName(s) = target /\ ~Reported(lastUpdate.es0, s, k))
              => BrowseEntry(s, k) \in lastUpdate.added
    /\ \A e \in lastUpdate.es0 :
          ~InCache(Services(cache), ServiceInstanceName(e))
              => e \in lastUpdate.removed
    /\ \A e \in lastUpdate.added \cup lastUpdate.removed :
          ServiceName(e) = target

\* an entry was removed while a service of another type is in the cache
C17_Witness ==
    /\ call = "lookupType"
    /\ lastUpdate.removed # {}
    /\ \E s \in Services(cache) :
          ServiceName(s) # target /\ Len(s.ifaceIPs) > 0

\* the value that the strings txt give for key first, "none" if none does
RECURSIVE FirstValue(_, _, _)
FirstValue(txt, key, k) ==
    IF k > Len(txt) THEN "none"
    ELSE LET elems == SplitN2(txt[k], "=")
         IN  IF Len(elems) = 2 /\ elems[1] = key THEN elems[2]
             ELSE FirstValue(txt, key, k + 1)

\* the TXT records of the last message that found their entry in the cache
AttachedTxt ==
    {rr \in SeqToSet(lastUpdate.req.msg.Answer) :
        rr.type = "TXT" /\ InCache(Services(cache), rr.name)}

\* C23: when a TXT record lists a key more than once, the Text of the entry
\* maps the key to the first value listed
C23_FirstValueWins ==
    \A rr \in AttachedTxt :
        \A kv \in SeqToSet(CacheEntry(Services(cache), rr.name).Text) :
            kv[2] = FirstValue(rr.txt, kv[1], 1)

\* the instance names UpdateFrom looked up: rr.Ptr of the PTR records and the
\* owner names of the SRV records of the message
LookedUp(m) ==
    {IF rr.type = "PTR" THEN rr.ptr ELSE rr.name :
        rr \in {x \in SeqToSet(m.Answer) : x.type \in {"PTR", "SRV"}}}

\* C25: the instance name UpdateFrom looks an entry up by, parsed with
\* parseServiceInstanceName by newService, is the ServiceInstanceName() of
\* the entry made from it, which is the key the entry is stored under; this
\* holds for every name a service can have, one with dots included
C25_InstanceNameRoundTrip ==
    \A key \in LookedUp(lastUpdate.req.msg) :
        ServiceInstanceName(newService(key)) = key

\* the PTR and SRV records of the message that carry a TTL
Creators(m) ==
    {rr \in SeqToSet(m.Answer \o m.Ns \o m.Extra) :
        rr.type \in {"PTR", "SRV"} /\ rr.ttl > 0}

\* the instance names of a set of entries
KeysOf(entries) == {ServiceInstanceName(e) : e \in entries}

\* C29: an entry that is in the cache after UpdateFrom and was not before was
\* made from a PTR or SRV of the message with TTL > 0 whose instance was not
\* in the cache, and is in the list of the added entries exactly once; a
\* message without such a record adds no entry to the cache and leaves both
\* lists without any entry that was unknown
C29_CreatedOnceByPtrOrSrv ==
    LET m == lastUpdate.req.msg
        adds == lastUpdate.adds
    IN  lastUpdate # NoUpdate =>
        /\ \A key \in CacheKeys(cache) \ lastUpdate.had :
              /\ \E rr \in Creators(m) :
                    LET looked == IF rr.type = "PTR" THEN rr.ptr ELSE rr.name
                    IN  /\ looked \notin lastUpdate.had
                        /\ ServiceInstanceName(newService(looked)) = key
              /\ Cardinality({i \in 1..Len(adds) : adds[i] = key}) = 1
        /\ SeqToSet(adds) \cap lastUpdate.had = {}
        /\ Creators(m) = {} =>
              /\ CacheKeys(cache) \subseteq lastUpdate.had
              /\ adds = <<>>
              /\ KeysOf(lastUpdate.rmvs) \subseteq lastUpdate.had

\* the records of the message in the order UpdateFrom goes through them
Processed(m) == sortByType(m.Answer \o m.Ns \o m.Extra)

\* C30: UpdateFrom goes through the records of a message, all of them and
\* each once, with every SRV and PTR before any other record, whatever their
\* order in the message; so a TXT record whose instance a PTR or SRV of the
\* same message puts in the cache sets the Text of that entry, and an A record
\* for the target of an SRV of the same message is among the addresses of
\* that SRV's entry
C30_SrvAndPtrFirst ==
    LET m == lastUpdate.req.msg
        all == m.Answer \o m.Ns \o m.Extra
        sorted == Processed(m)
    IN  /\ Len(sorted) = Len(all)
        /\ SeqToSet(sorted) = SeqToSet(all)
        /\ \A i, j \in 1..Len(sorted) :
              (i < j /\ sorted[j].type \in {"SRV", "PTR"})
                 => sorted[i].type \in {"SRV", "PTR"}
        /\ \A rr \in SeqToSet(all) : \A cr \in Creators(m) :
              /\ ( /\ rr.type = "TXT"
                   /\ rr.name = (IF cr.type = "PTR" THEN cr.ptr ELSE cr.name)
                   /\ InCache(cache, rr.name) )
                 => CacheEntry(cache, rr.name).Text = parseTxt(rr.txt, 1, NoText)
              /\ ( /\ rr.type = "A"
                   /\ cr.type = "SRV"
                   /\ rr.name = cr.target
                   /\ InCache(cache, cr.name) )
                 => rr.ip \in SeqToSet(CacheEntry(cache, cr.name).IPs)

\* a message that lists the TXT and the A record before the PTR and the SRV
\* made an entry that has the text and the address
C30_Witness ==
    /\ lastUpdate.had = {}
    /\ Len(lastUpdate.req.msg.Answer) = 4
    /\ lastUpdate.req.msg.Answer[1].type = "TXT"
    /\ lastUpdate.req.msg.Answer[2].type = "A"
    /\ lastUpdate.req.msg.Answer[3].type = "PTR"
    /\ lastUpdate.req.msg.Answer[4].type = "SRV"
    /\ InCache(cache, ServiceInstanceName(PeerService))
    /\ CacheEntry(cache, ServiceInstanceName(PeerService)).Text = PeerService.Text
    /\ CacheEntry(cache, ServiceInstanceName(PeerService)).IPs = <<IPv4(4)>>

\* C37: the address list a cache entry keeps for an interface holds no
\* address twice
C37_AddressesOnce ==
    \A e \in Services(cache) :
        \A k \in 1..Len(e.ifaceIPs) : NoDuplicates(e.ifaceIPs[k][2])

\* two browse entries are of one instance and one interface
SamePair(a, b) ==
    /\ ServiceInstanceName(a) = ServiceInstanceName(b)
    /\ a.IfaceName = b.IfaceName

\* C38: es, the entries whose add was reported and not yet followed by a
\* remove, never holds two entries of one instance and interface; add is
\* called only for a pair that is not in es, and once; remove is called only
\* for an entry of es; and es is what it was, with the added entries and
\* without the removed ones
C38_CallbacksAlternate ==
    /\ \A a \in es : \A b \in es : SamePair(a, b) => a = b
    /\ \A a \in lastUpdate.added :
          /\ ~\E e \in lastUpdate.es0 : SamePair(a, e)
          /\ \A b \in lastUpdate.added : SamePair(a, b) => a = b
    /\ lastUpdate.removed \subseteq lastUpdate.es0
    /\ lastUpdate.req # NoRequest =>
          es = (lastUpdate.es0 \cup lastUpdate.added) \ lastUpdate.removed

\* the service is announced again on an interface it was reported on, and add
\* is not called a second time
C38_Witness ==
    /\ lastUpdate.req = PeerResponse(ShortAnnouncement(PeerService, IPv4(4)), "lo0")
    /\ \E e \in lastUpdate.es0 :
          /\ ServiceInstanceName(e) = ServiceInstanceName(PeerService)
          /\ e.IfaceName = "lo0"
    /\ lastUpdate.added = {}
    /\ es = lastUpdate.es0

(***************************************************************************)
(* Claims about the resolver                                               *)
(***************************************************************************)
\* C15: lookupInstance returns a service without an error only when the
\* entry of the instance has a Host and a Port, that is when an SRV record
\* for it has been processed
C15_ReturnsResolvedService ==
    (clientPc = "returned" /\ clientErr = ErrNil)
        => (clientSrv.Host # <<>> /\ clientSrv.Port # 0)

\* every query has been answered, and every announcement and every response
\* has been read
RoundDone ==
    /\ queries = Len(multicastInterfaces)
    /\ announcers = {}
    /\ sentQ = <<>>
    /\ wire = <<>>

\* the service r that lookupInstance returned is the service s
SameService(s, r) ==
    /\ r.Name = s.Name
    /\ r.Type = s.Type
    /\ r.Host = s.Host
    /\ r.Port = s.Port
    /\ r.Text = s.Text
    /\ Len(IPsAtInterface(r, testIface)) = Len(IPsAtInterface(s, testIface))
    /\ SeqToSet(IPsAtInterface(r, testIface))
           = SeqToSet(IPsAtInterface(s, testIface))

\* C16: with a responder that manages S on one end of the transport and
\* lookupInstance for the instance name of S on the other, the resolver
\* returns once the messages are exchanged, without an error, and what it
\* returns has the Name, Type, Host, Port and Text of S and, at the interface
\* of S, the addresses S advertises
C16_RoundTrip ==
    /\ RoundDone => clientPc = "returned"
    /\ clientPc = "returned"
          => (clientErr = ErrNil /\ SameService(service[1], clientSrv))

\* the goroutine that sends one query per interface into qs has handed over
\* the last of them and is through
FeederDone == queries = Len(multicastInterfaces)

\* C39: when lookupInstance or lookupType has returned, the goroutine that
\* feeds the queries into the channel is through as well
C39_FeederEndsWithLookup == clientPc = "returned" => FeederDone

(***************************************************************************)
(* Claims about conflicts and truncated messages                           *)
(***************************************************************************)
\* the responses sent hold no record of the instance of s
NotAnsweredBy(s) ==
    \A j \in 1..Len(lastOp.sent) :
        LET rrs == lastOp.sent[j].msg.Answer \o lastOp.sent[j].msg.Extra
        IN  \A i \in 1..Len(rrs) :
                /\ rrs[i].type \in {"SRV", "TXT"}
                      => rrs[i].name # ServiceInstanceName(s)
                /\ rrs[i].type = "PTR" => rrs[i].ptr # ServiceInstanceName(s)

\* C11: when handleRequest has handled a message, every service that was
\* managed and that the message conflicts with (a denying SRV for its instance
\* name, or A/AAAA records for its hostname that are not its own set) is out
\* of the managed list, a reprobe goroutine is probing it, and no response to
\* the message's questions holds a record of it; the managed services without
\* a conflict are managed as before, in their order.
C11_ConflictRemovesAndReprobes ==
    Handled =>
        /\ managed = Filter(lastOp.managed0,
                            LAMBDA h : ~containsConflictingAnswers(lastOp.req, service[h]))
        /\ \A k \in 1..Len(lastOp.managed0) :
              LET h == lastOp.managed0[k]
              IN  containsConflictingAnswers(lastOp.req, service[h]) =>
                     /\ h \notin SeqToSet(managed)
                     /\ [h |-> h, svc |-> service[h], pc |-> "probing"] \in reprobing
                     /\ NotAnsweredBy(service[h])

\* a request asks for the service type and claims the instance of the first
\* of two managed services with another SRV: the second one answers alone
C11_Witness ==
    /\ Handled
    /\ Len(lastOp.managed0) = 2
    /\ Len(managed) = 1
    /\ containsConflictingAnswers(lastOp.req, service[lastOp.managed0[1]])
    /\ Len(lastOp.req.msg.Ns) = 1 /\ lastOp.req.msg.Ns[1].type = "SRV"
    /\ Len(lastOp.sent) = 1
    /\ lastOp.sent[1].msg.Answer = <<PTR(service[managed[1]])>>
    /\ Cardinality(reprobing) = 1

\* C12: a truncated message that is held aside leaves its place only when the
\* next message of its own source is handled, which is then processed as one
\* message with the Answer, Authority and Additional sections of both; a
\* message of another source, truncated or not, leaves it where it is.
C12_TruncatedKeptPerSource ==
    [][(truncated # NoRequest /\ truncated' # truncated) =>
          /\ truncated' = NoRequest
          /\ lastOp'.req.from = truncated.from
          /\ \E req \in TruncRequests :
                /\ req.from = truncated.from
                /\ lastOp'.req.msg = mergeMsgs(<<truncated.msg, req.msg>>)]_vars

====
